---------------------------- MODULE Spec2Model ----------------------------
(***************************************************************************)
(* A model of the chess engine core of grant0417/chess-ai: the bitboard    *)
(* position (src/src/bitboard.rs), its move generator, apply_move /        *)
(* change_side / mirror_board, perft and the search driver                 *)
(* (src/src/search.rs).                                                    *)
(*                                                                         *)
(* Representation.  A u64 bitboard is the set of the indices of its 1      *)
(* bits (a subset of 0..63), so  &  is \cap,  |  is \cup,  ^  is the       *)
(* symmetric difference,  !  is the complement in 0..63, and a shift moves *)
(* every index and drops the ones that leave 0..63.  The u8 castling byte  *)
(* is the set of the flag values (1,2,4,8,16,32) that are set in it.  A    *)
(* BitBoardMove keeps its u16 encoding: to + 64*from + 4096*flags.         *)
(***************************************************************************)
EXTENDS Integers, Sequences, FiniteSets, TLC

Squares == 0 .. 63

Max(S) == CHOOSE x \in S : \A y \in S : y <= x
Min(S) == CHOOSE x \in S : \A y \in S : x <= y

\* u64 operators on sets of bit indices
Not(b) == Squares \ b
Xor(a, b) == (a \ b) \cup (b \ a)
Shl(b, n) == {x + n : x \in {y \in b : y + n <= 63}}
Shr(b, n) == {x - n : x \in {y \in b : y >= n}}
\* 1u64 << i as the code's release build computes it (the shift amount wraps at 64)
Bit(i) == {i % 64}
trailing_zeros(b) == IF b = {} THEN 64 ELSE Min(b)
leading_zeros(b) == IF b = {} THEN 64 ELSE 63 - Max(b)
swap_bytes(b) == {(7 - (x \div 8)) * 8 + (x % 8) : x \in b}

\* Board masks
A_FILE == {s \in Squares : s % 8 = 0}
H_FILE == {s \in Squares : s % 8 = 7}
NOT_A_FILE == Squares \ A_FILE
NOT_H_FILE == Squares \ H_FILE
NOT_AB_FILE == {s \in Squares : s % 8 >= 2}
NOT_GH_FILE == {s \in Squares : s % 8 <= 5}
RANK1 == 0 .. 7
RANK3 == 16 .. 23
RANK4 == 24 .. 31
RANK6 == 40 .. 47
RANK8 == 56 .. 63

\* Move flags
QUITE_MOVE == 0
DOUBLE_PAWN_PUSH == 1
KING_CASTLE == 2
QUEEN_CASTLE == 3
CAPTURE == 4
EP_CAPTURE == 5
KNIGHT_PROMOTION == 8
BISHOP_PROMOTION == 9
ROOK_PROMOTION == 10
QUEEN_PROMOTION == 11
KNIGHT_PROMOTION_CAPTURE == 12
BISHOP_PROMOTION_CAPTURE == 13
ROOK_PROMOTION_CAPTURE == 14
QUEEN_PROMOTION_CAPTURE == 15

\* Castling state
WHITE_A_ROOK == 1
WHITE_H_ROOK == 2
WHITE_KING == 4
BLACK_A_ROOK == 8
BLACK_H_ROOK == 16
BLACK_KING == 32
CASTLE_WHITE_KING == {WHITE_KING, WHITE_H_ROOK}
CASTLE_WHITE_QUEEEN == {WHITE_KING, WHITE_A_ROOK}
CASTLE_BLACK_KING == {BLACK_KING, BLACK_H_ROOK}
CASTLE_BLACK_QUEEN == {BLACK_KING, BLACK_A_ROOK}

\* enum Direction
North == 0
South == 1
East == 2
West == 3
NorthEast == 4
NorthWest == 5
SouthEast == 6
SouthWest == 7
NorthNorthEast == 8
NorthNorthWest == 9
SouthSouthEast == 10
SouthSouthWest == 11
NorthWestWest == 12
NorthEastEast == 13
SouthWestWest == 14
SouthEastEast == 15

\* enum Color, enum Piece (board.rs)
White == 0
Black == 1
King == 0
Queen == 1
Rook == 2
Bishop == 3
Knight == 4
Pawn == 5

\* 4-bit flag words as sets of bit positions, for | and & on flags
FlagBits(n) == {i \in 0 .. 3 : (n \div (2 ^ i)) % 2 = 1}
FlagNum(S) == (IF 0 \in S THEN 1 ELSE 0) + (IF 1 \in S THEN 2 ELSE 0)
              + (IF 2 \in S THEN 4 ELSE 0) + (IF 3 \in S THEN 8 ELSE 0)
FlagOr(a, b) == FlagNum(FlagBits(a) \cup FlagBits(b))
FlagAnd(a, b) == FlagNum(FlagBits(a) \cap FlagBits(b))

\* is_empty: ((b as i64).overflowing_sub(1).0 >> 63) as u64, all ones or zero.
\* b - 1 is negative as an i64 when b = 0, and when bit 63 is set unless b is
\* exactly 1 << 63 (then the subtraction wraps to i64::MAX).
is_empty(b) == IF b = {} \/ (63 \in b /\ b # {63}) THEN Squares ELSE {}

\* One-step shifts
south_one(b) == Shr(b, 8)
north_one(b) == Shl(b, 8)
east_one(b) == Shl(b, 1) \cap NOT_A_FILE
west_one(b) == Shr(b, 1) \cap NOT_H_FILE
north_east_one(b) == Shl(b, 9) \cap NOT_A_FILE
north_west_one(b) == Shl(b, 7) \cap NOT_H_FILE
south_east_one(b) == Shr(b, 7) \cap NOT_A_FILE
south_west_one(b) == Shr(b, 9) \cap NOT_H_FILE
north_north_east(b) == Shl(b, 17) \cap NOT_A_FILE
north_east_east(b) == Shl(b, 10) \cap NOT_AB_FILE
south_east_east(b) == Shr(b, 6) \cap NOT_AB_FILE
south_south_east(b) == Shr(b, 15) \cap NOT_A_FILE
north_north_west(b) == Shl(b, 15) \cap NOT_H_FILE
north_west_west(b) == Shl(b, 6) \cap NOT_GH_FILE
south_west_west(b) == Shr(b, 10) \cap NOT_GH_FILE
south_south_west(b) == Shr(b, 17) \cap NOT_H_FILE

\* Kogge-Stone fills.  Every fill_* is the same three doubling steps,
\*     rook |= empty & shift(rook, n);      empty &= shift(empty, n);
\*     rook |= empty & shift(rook, 2n);     empty &= shift(empty, 2n);
\*     rook |= empty & shift(rook, 4n)
\* with its own shift n (up the board for n > 0, down for n < 0) and its own
\* mask on empty.
Shift(b, n) == IF n >= 0 THEN Shl(b, n) ELSE Shr(b, 0 - n)
FillThird(rook, empty, n) == rook \cup (empty \cap Shift(rook, n))
FillSecond(rook, empty, n) ==
    FillThird(rook \cup (empty \cap Shift(rook, n)), empty \cap Shift(empty, n), 2 * n)
FillFirst(rook, empty, n) ==
    FillSecond(rook \cup (empty \cap Shift(rook, n)), empty \cap Shift(empty, n), 2 * n)

fill_north(rook, empty) == FillFirst(rook, empty, 8)
fill_south(rook, empty) == FillFirst(rook, empty, -8)
fill_east(rook, empty) == FillFirst(rook, empty \cap NOT_A_FILE, 1)
fill_west(rook, empty) == FillFirst(rook, empty \cap NOT_H_FILE, -1)
fill_north_east(bishop, empty) == FillFirst(bishop, empty \cap NOT_A_FILE, 9)
fill_south_east(bishop, empty) == FillFirst(bishop, empty \cap NOT_A_FILE, -7)
fill_north_west(bishop, empty) == FillFirst(bishop, empty \cap NOT_H_FILE, 7)
fill_south_west(bishop, empty) == FillFirst(bishop, empty \cap NOT_H_FILE, -9)

attack_north(rook, empty) == north_one(fill_north(rook, empty))
attack_south(rook, empty) == south_one(fill_south(rook, empty))
attack_east(rook, empty) == east_one(fill_east(rook, empty))
attack_west(rook, empty) == west_one(fill_west(rook, empty))
attack_north_east(bishop, empty) == north_east_one(fill_north_east(bishop, empty))
attack_north_west(bishop, empty) == north_west_one(fill_north_west(bishop, empty))
attack_south_east(bishop, empty) == south_east_one(fill_south_east(bishop, empty))
attack_south_west(bishop, empty) == south_west_one(fill_south_west(bishop, empty))

\* The ray of direction d from square i, filled over the mask !1 (every square
\* but a1 counts as empty) and with the origin removed.
DirectionFill(d, b, empty) ==
    CASE d = North -> fill_north(b, empty)
      [] d = South -> fill_south(b, empty)
      [] d = East -> fill_east(b, empty)
      [] d = West -> fill_west(b, empty)
      [] d = NorthEast -> fill_north_east(b, empty)
      [] d = NorthWest -> fill_north_west(b, empty)
      [] d = SouthEast -> fill_south_east(b, empty)
      [] d = SouthWest -> fill_south_west(b, empty)
RayFill(d, i) == DirectionFill(d, {i}, Squares \ {0}) \ {i}

\* const RAY_ATTACKS: [[u64; 65]; 8]; slot 64 stays 0
RAY_ATTACKS == [d \in 0 .. 7 |-> [i \in 0 .. 64 |-> IF i = 64 THEN {} ELSE RayFill(d, i)]]

LowestBlocked(attacks, occupied, direction) ==
    Xor(attacks, RAY_ATTACKS[direction][trailing_zeros(attacks \cap occupied)])
get_ray_attacks(index, occupied, direction) ==
    LowestBlocked(RAY_ATTACKS[direction][index], occupied, direction)

\* 63u32.overflowing_sub(leading_zeros) wraps below zero when there is no
\* blocker, and the match turns every value of 64 or more into slot 64
HighestBit(blockers) == IF blockers = {} THEN 64 ELSE 63 - leading_zeros(blockers)
HighestBlocked(attacks, occupied, direction) ==
    Xor(attacks, RAY_ATTACKS[direction][HighestBit(attacks \cap occupied)])
get_negative_ray_attacks(index, occupied, direction) ==
    HighestBlocked(RAY_ATTACKS[direction][index], occupied, direction)

king_attacks(king) ==
    LET attacks == east_one(king) \cup west_one(king)
        row == attacks \cup king
    IN  attacks \cup north_one(row) \cup south_one(row)

knight_attacks(knight) ==
    north_north_east(knight) \cup north_east_east(knight)
    \cup south_east_east(knight) \cup south_south_east(knight)
    \cup north_north_west(knight) \cup north_west_west(knight)
    \cup south_west_west(knight) \cup south_south_west(knight)

\* knight_attacks2: the second formulation, by files first and ranks second
knight_attacks2(knights) ==
    LET l1 == Shr(knights, 1) \cap NOT_H_FILE
        l2 == Shr(knights, 2) \cap NOT_GH_FILE
        r1 == Shl(knights, 1) \cap NOT_A_FILE
        r2 == Shl(knights, 2) \cap NOT_AB_FILE
        h1 == l1 \cup r1
        h2 == l2 \cup r2
    IN  Shl(h1, 16) \cup Shr(h1, 16) \cup Shl(h2, 8) \cup Shr(h2, 8)

\* const KING_ATTACKS and const KNIGHT_ATTACKS: [u64; 64]; the loops of both
\* fill slot i with knight_attacks2(1 << i)
KING_ATTACKS == [i \in 0 .. 63 |-> knight_attacks2({i})]
KNIGHT_ATTACKS == [i \in 0 .. 63 |-> knight_attacks2({i})]

(***************************************************************************)
(* struct BitBoard([u64; 12]) and struct BitBoardState                     *)
(***************************************************************************)
\* self.0[color * 6 + piece]
get_set(bitboard, color, piece) == bitboard[color * 6 + piece]

empty_squares(bitboard) == Squares \ UNION {bitboard[i] : i \in 0 .. 11}
occupied_squares(bitboard) == UNION {bitboard[i] : i \in 0 .. 11}
color_pieces(bitboard, color) == UNION {bitboard[color * 6 + p] : p \in 0 .. 5}

set_piece(bitboard, index, color, piece) ==
    [bitboard EXCEPT ![color * 6 + piece] = @ \cup Bit(index)]

clear_piece(bitboard, index, color, piece) ==
    [bitboard EXCEPT ![color * 6 + piece] = @ \ Bit(index)]

\* Option<(Color, Piece)>: <<color, piece>> or <<>> for None.  The sets are
\* probed in the order of the code, Black first.
GetPieceOrder ==
    << <<Black, Pawn>>, <<Black, Rook>>, <<Black, Bishop>>, <<Black, Knight>>,
       <<Black, Queen>>, <<Black, King>>, <<White, Pawn>>, <<White, Rook>>,
       <<White, Bishop>>, <<White, Knight>>, <<White, Queen>>, <<White, King>> >>

get_piece(bitboard, index) ==
    LET hits == {k \in 1 .. 12 :
                   index \in get_set(bitboard, GetPieceOrder[k][1], GetPieceOrder[k][2])}
    IN  IF hits = {} THEN <<>> ELSE GetPieceOrder[Min(hits)]

flip_board(bitboard) ==
    [i \in 0 .. 11 |-> swap_bytes(bitboard[(i + 6) % 12])]

\* BitBoardMove(u16): (to & 0x3f) | ((from & 0x3f) << 6) | ((flags & 0xf) << 12)
BitBoardMove(from, to, flags) == (to % 64) + 64 * (from % 64) + 4096 * (flags % 16)
get_to(m) == m % 64
get_from(m) == (m \div 64) % 64
get_flags(m) == (m \div 4096) % 16
set_to(m, to) == (m - (m % 64)) + (to % 64)
set_from(m, from) == (m - 64 * ((m \div 64) % 64)) + 64 * (from % 64)
set_flags(m, flags) == (m - 4096 * ((m \div 4096) % 16)) + 4096 * (flags % 16)
\* impl PartialEq for BitBoardMove: (self.0 & 0x0fff) == (other.0 & 0x0fff)
eq(self, other) == (self % 4096) = (other % 4096)

\* mirror_board with the en-passant square carried up the board only
mirror_board_one_way(s) ==
    [s EXCEPT !.bitboard = flip_board(s.bitboard),
              !.en_passant = trailing_zeros(Shl(Bit(s.en_passant) \cap RANK3, 24)),
              !.castling = {f * 8 : f \in {g \in s.castling : g < 8}}
                           \cup {f \div 8 : f \in {g \in s.castling : g >= 8}}]

mirror_board(s) ==
    LET ep == Bit(s.en_passant)
        lower == {f \in s.castling : f < 8}
        upper == {f \in s.castling : f >= 8}
    IN  [s EXCEPT !.bitboard = flip_board(s.bitboard),
                  !.en_passant = trailing_zeros(Shl(ep \cap RANK3, 24) \cup Shr(ep \cap RANK6, 24)),
                  !.castling = {f * 8 : f \in lower} \cup {f \div 8 : f \in upper}]

\* half_moves is a u8 and full_moves a u16; the additions are kept at their width
change_side(s) ==
    [s EXCEPT !.active_color = IF s.active_color = White THEN Black ELSE White,
              !.full_moves = IF s.active_color = Black THEN (s.full_moves + 1) % 65536
                             ELSE s.full_moves,
              !.half_moves = (s.half_moves + 1) % 256]

\* The first step of apply_move: a captured Black rook clears Black's rook flag
\* by the file of the ORIGIN square of the move
ClearCapturedRookFlags(s, m, to_type) ==
    IF to_type = <<Black, Rook>>
    THEN (s.castling \ (IF get_from(m) \in A_FILE THEN {BLACK_A_ROOK} ELSE {}))
           \ (IF get_from(m) \in H_FILE THEN {BLACK_H_ROOK} ELSE {})
    ELSE s.castling

\* The castling flags a moving piece clears: always White's
ClearMoverFlags(castling, m, piece) ==
    CASE piece = King -> castling \ {WHITE_KING}
      [] piece = Rook ->
           (castling \ (IF get_from(m) \in A_FILE THEN {WHITE_A_ROOK} ELSE {}))
             \ (IF get_from(m) \in H_FILE THEN {WHITE_H_ROOK} ELSE {})
      [] OTHER -> castling

\* match m.get_flags() & !CAPTURE
FlagKind(m) == FlagNum(FlagBits(get_flags(m)) \ FlagBits(CAPTURE))

\* a promotion that always makes a queen, whatever the flag names
PromotedPieceQueenOnly(m, piece) == IF get_flags(m) >= KNIGHT_PROMOTION THEN Queen ELSE piece

PromotedPiece(m, piece) ==
    CASE FlagKind(m) = QUEEN_PROMOTION -> Queen
      [] FlagKind(m) = KNIGHT_PROMOTION -> Knight
      [] FlagKind(m) = ROOK_PROMOTION -> Rook
      [] FlagKind(m) = BISHOP_PROMOTION -> Bishop
      [] OTHER -> piece

\* The side effects of the flag on the board, all written for White
FlagBoard(bitboard, m) ==
    CASE FlagKind(m) = EP_CAPTURE -> clear_piece(bitboard, get_to(m) - 8, Black, Pawn)
      [] FlagKind(m) = QUEEN_CASTLE ->
           set_piece(clear_piece(bitboard, 0, White, Rook), 3, White, Rook)
      [] FlagKind(m) = KING_CASTLE ->
           set_piece(clear_piece(bitboard, 7, White, Rook), 5, White, Rook)
      [] OTHER -> bitboard

apply_move(s, m) ==
    LET from_type == get_piece(s.bitboard, get_from(m))
        to_type == get_piece(s.bitboard, get_to(m))
        castling1 == ClearCapturedRookFlags(s, m, to_type)
        board1 == IF to_type # <<>>
                  THEN clear_piece(s.bitboard, get_to(m), to_type[1], to_type[2])
                  ELSE s.bitboard
    IN  IF from_type = <<>>
        THEN [s EXCEPT !.bitboard = board1, !.castling = castling1, !.en_passant = 64]
        ELSE LET color == from_type[1]
                 piece == from_type[2]
                 p == PromotedPiece(m, piece)
                 board2 == FlagBoard(board1, m)
                 board3 == set_piece(board2, get_to(m), color, p)
                 board4 == clear_piece(board3, get_from(m), color, piece)
             IN  [s EXCEPT !.bitboard = board4,
                           !.castling = ClearMoverFlags(castling1, m, piece),
                           !.en_passant = IF FlagKind(m) = DOUBLE_PAWN_PUSH
                                          THEN (get_from(m) + 8) % 256 ELSE 64]

(***************************************************************************)
(* fn move_targets(state, color) -> [u64; 16]                              *)
(***************************************************************************)
\* !((((x) as i64 - 1) >> 63) as u64) for a small x: all ones iff x # 0
NonZeroMask(nonzero) == IF nonzero THEN Squares ELSE {}

\* The first half of move_targets is eight blocks, one per line through our
\* king, each folding three values into the accumulators: attacks (what the
\* enemy sliders attack with our king lifted), ep_attacks (the same with the
\* en-passant pawn lifted too) and super_attacks (our king's own ray towards
\* them).
NoAttacks ==
    [any_attacks |-> {}, hor_inbetween |-> {}, ver_inbetween |-> {},
     dia_inbetween |-> {}, ant_inbetween |-> {}, hor_inbetween_ep |-> {},
     dia_inbetween_ep |-> {}, ant_inbetween_ep |-> {},
     w_ksuper_attacks_orth |-> {}, w_ksuper_attacks_dia |-> {}, check_from |-> {}]

HorBlock(acc, attacks, ep_attacks, super_attacks) ==
    [acc EXCEPT !.any_attacks = @ \cup attacks,
                !.w_ksuper_attacks_orth = @ \cup super_attacks,
                !.hor_inbetween = @ \cup (attacks \cap super_attacks),
                !.hor_inbetween_ep = @ \cup (ep_attacks \cap super_attacks)]
VerBlock(acc, attacks, super_attacks) ==
    [acc EXCEPT !.any_attacks = @ \cup attacks,
                !.w_ksuper_attacks_orth = @ \cup super_attacks,
                !.ver_inbetween = @ \cup (attacks \cap super_attacks)]
DiaBlock(acc, attacks, ep_attacks, super_attacks) ==
    [acc EXCEPT !.any_attacks = @ \cup attacks,
                !.w_ksuper_attacks_dia = @ \cup super_attacks,
                !.dia_inbetween = @ \cup (attacks \cap super_attacks),
                !.dia_inbetween_ep = @ \cup ep_attacks]
AntBlock(acc, attacks, ep_attacks, super_attacks) ==
    [acc EXCEPT !.any_attacks = @ \cup attacks,
                !.w_ksuper_attacks_dia = @ \cup super_attacks,
                !.ant_inbetween = @ \cup (attacks \cap super_attacks),
                !.ant_inbetween_ep = @ \cup ep_attacks]

OppositeColor(color) == IF color = White THEN Black ELSE White
OurKingIndex(state, color) == trailing_zeros(get_set(state.bitboard, color, King))
EmptyAndOurKing(state, color) ==
    Not(Xor(Not(empty_squares(state.bitboard)), get_set(state.bitboard, color, King)))
EmptyAndOurKingAndEp(state, color) ==
    Not(Xor(Xor(Not(empty_squares(state.bitboard)), get_set(state.bitboard, color, King)),
            Shr(Bit(state.en_passant) \cap (RANK6 \cup RANK3), 8)))
OrthogonalSet(state, color) ==
    get_set(state.bitboard, color, Rook) \cup get_set(state.bitboard, color, Queen)
DiagonalSet(state, color) ==
    get_set(state.bitboard, color, Bishop) \cup get_set(state.bitboard, color, Queen)

\* rooks and queens west, east, north, south
OrthogonalBlocks(orthogonal_set, empty_and_our_king, empty_and_our_king_and_ep, our_king_index, occupied) ==
    VerBlock(
      VerBlock(
        HorBlock(
          HorBlock(NoAttacks,
                   attack_west(orthogonal_set, empty_and_our_king),
                   attack_west(orthogonal_set, empty_and_our_king_and_ep),
                   get_ray_attacks(our_king_index, occupied, East)),
          attack_east(orthogonal_set, empty_and_our_king),
          attack_east(orthogonal_set, empty_and_our_king_and_ep),
          get_negative_ray_attacks(our_king_index, occupied, West)),
        attack_north(orthogonal_set, empty_and_our_king),
        get_negative_ray_attacks(our_king_index, occupied, South)),
      attack_south(orthogonal_set, empty_and_our_king),
      get_ray_attacks(our_king_index, occupied, North))

\* bishops and queens north east, south west, north west, south east
DiagonalBlocks(acc, diagonal_set, empty_and_our_king, empty_and_our_king_and_ep, our_king_index, occupied) ==
    AntBlock(
      AntBlock(
        DiaBlock(
          DiaBlock(acc,
                   attack_north_east(diagonal_set, empty_and_our_king),
                   attack_north_east(diagonal_set, empty_and_our_king_and_ep),
                   get_negative_ray_attacks(our_king_index, occupied, SouthWest)),
          attack_south_west(diagonal_set, empty_and_our_king),
          attack_south_west(diagonal_set, empty_and_our_king_and_ep),
          get_ray_attacks(our_king_index, occupied, NorthEast)),
        attack_north_west(diagonal_set, empty_and_our_king),
        attack_north_west(diagonal_set, empty_and_our_king_and_ep),
        get_negative_ray_attacks(our_king_index, occupied, SouthEast)),
      attack_south_east(diagonal_set, empty_and_our_king),
      attack_south_east(diagonal_set, empty_and_our_king_and_ep),
      get_ray_attacks(our_king_index, occupied, NorthWest))

\* knights, pawns and king of the other side
LeaperAttacks(acc, bb, opposite_color) ==
    [acc EXCEPT !.any_attacks =
         @ \cup knight_attacks(get_set(bb, opposite_color, Knight))
           \cup south_east_one(get_set(bb, opposite_color, Pawn))
           \cup south_west_one(get_set(bb, opposite_color, Pawn))
           \cup king_attacks(get_set(bb, opposite_color, King))]

CheckFrom(acc, bb, our_king, opposite_color, orthogonal_set, diagonal_set) ==
    [acc EXCEPT !.check_from =
         (acc.w_ksuper_attacks_orth \cap orthogonal_set)
         \cup (acc.w_ksuper_attacks_dia \cap diagonal_set)
         \cup (knight_attacks(our_king) \cap get_set(bb, opposite_color, Knight))
         \cup ((north_east_one(our_king) \cup north_west_one(our_king))
               \cap get_set(bb, opposite_color, Pawn))]

\* The king-centric analysis of the first half of move_targets: the attacked
\* squares, the in-between sets per line, their en-passant variants and the
\* checkers.
KingAnalysis(state, color) ==
    CheckFrom(
      LeaperAttacks(
        DiagonalBlocks(
          OrthogonalBlocks(OrthogonalSet(state, OppositeColor(color)),
                           EmptyAndOurKing(state, color),
                           EmptyAndOurKingAndEp(state, color),
                           OurKingIndex(state, color),
                           Not(empty_squares(state.bitboard))),
          DiagonalSet(state, OppositeColor(color)),
          EmptyAndOurKing(state, color),
          EmptyAndOurKingAndEp(state, color),
          OurKingIndex(state, color),
          Not(empty_squares(state.bitboard))),
        state.bitboard, OppositeColor(color)),
      state.bitboard, get_set(state.bitboard, color, King), OppositeColor(color),
      OrthogonalSet(state, OppositeColor(color)),
      DiagonalSet(state, OppositeColor(color)))

\* check_from & (check_from - 1): the lowest set bit cleared (0 stays 0)
ClearLowestBit(b) == IF b = {} THEN {} ELSE b \ {Min(b)}

\* target_mask = !our_pieces & check_to & null_if_dbl_check
TargetMask(state, color, ka) ==
    LET bb == state.bitboard
        occupied == occupied_squares(bb)
        our_king == get_set(bb, color, King)
        all_inbetween == ka.hor_inbetween \cup ka.ver_inbetween
                         \cup ka.dia_inbetween \cup ka.ant_inbetween
        blocks == all_inbetween \ occupied
        null_if_check == is_empty(ka.any_attacks \cap our_king)
        null_if_dbl_check == is_empty(ClearLowestBit(ka.check_from))
        check_to == ka.check_from \cup blocks \cup null_if_check
    IN  (Not(color_pieces(bb, color)) \cap check_to) \cap null_if_dbl_check

\* The two castling targets, added to the West and the East move targets
LeftCastle(state, our_king, occupied, any_attacks) ==
    LET target_mask == Not(occupied \cup any_attacks)
        castling_rights == NonZeroMask(WHITE_KING \in state.castling)
        check_clear == NonZeroMask((west_one(our_king) \cap target_mask) # {})
        nothing_1 == Not(is_empty(west_one(west_one(our_king)) \cap target_mask))
        nothing_2 == Not(is_empty(west_one(west_one(west_one(our_king))) \cap target_mask))
    IN  (west_one(west_one(our_king)) \cap target_mask)
        \cap castling_rights \cap check_clear \cap nothing_1 \cap nothing_2

RightCastle(state, our_king, occupied, any_attacks) ==
    LET target_mask == Not(occupied \cup any_attacks)
        castling_rights == NonZeroMask((state.castling \cap CASTLE_WHITE_KING) # {})
        check_clear == Not(is_empty(east_one(our_king) \cap target_mask))
        nothing == Not(is_empty(east_one(east_one(our_king)) \cap target_mask))
    IN  (east_one(east_one(our_king)) \cap target_mask)
        \cap castling_rights \cap check_clear \cap nothing

\* all_inbetween and all_inbetween_ep
AllInbetween(ka) ==
    ka.hor_inbetween \cup ka.ver_inbetween \cup ka.dia_inbetween \cup ka.ant_inbetween
AllInbetweenEp(ka) ==
    ka.hor_inbetween_ep \cup ka.dia_inbetween_ep \cup ka.ant_inbetween_ep

\* The second half of move_targets ("Valid moves"): the sixteen target sets,
\* from the analysis ka, all_inbetween, all_inbetween_ep and target_mask of the
\* first half
ValidMoves(state, color, ka, all_inbetween, all_inbetween_ep, target_mask) ==
    LET opposite_color == IF color = White THEN Black ELSE White
        bb == state.bitboard
        empty == empty_squares(bb)
        occupied == Not(empty)
        our_king == get_set(bb, color, King)
        our_pieces == color_pieces(bb, color)
        their_pieces == color_pieces(bb, opposite_color)
        orthogonal_set == get_set(bb, color, Rook) \cup get_set(bb, color, Queen)
        diagonal_set == get_set(bb, color, Bishop) \cup get_set(bb, color, Queen)
        hor_sliders == orthogonal_set \cap Not(Xor(all_inbetween, ka.hor_inbetween))
        ver_sliders == orthogonal_set \cap Not(Xor(all_inbetween, ka.ver_inbetween))
        dia_sliders == diagonal_set \cap Not(Xor(all_inbetween, ka.dia_inbetween))
        ant_sliders == diagonal_set \cap Not(Xor(all_inbetween, ka.ant_inbetween))
        knights == get_set(bb, color, Knight) \cap Not(all_inbetween)
        \* pawn captures and en passant
        targets == their_pieces \cap target_mask
        pawns == get_set(bb, color, Pawn)
        dia_pawns == pawns \cap Not(Xor(all_inbetween, ka.dia_inbetween))
        ant_pawns == pawns \cap Not(Xor(all_inbetween, ka.ant_inbetween))
        ep_target == Bit(state.en_passant)
        \* pawn pushes
        ver_pawns == pawns \cap Not(Xor(all_inbetween, ka.ver_inbetween))
        pawn_pushes == north_one(ver_pawns) \cap Not(occupied)
        \* king moves
        king_target_mask == Not(our_pieces \cup ka.any_attacks)
    IN  [d \in 0 .. 15 |->
          CASE d = East ->
                 (attack_east(hor_sliders, empty) \cap target_mask)
                 \cup (east_one(our_king) \cap king_target_mask)
                 \cup RightCastle(state, our_king, occupied, ka.any_attacks)
            [] d = West ->
                 (attack_west(hor_sliders, empty) \cap target_mask)
                 \cup (west_one(our_king) \cap king_target_mask)
                 \cup LeftCastle(state, our_king, occupied, ka.any_attacks)
            [] d = North ->
                 (attack_north(ver_sliders, empty) \cap target_mask)
                 \cup (pawn_pushes \cap target_mask)
                 \cup (((north_one(pawn_pushes) \cap Not(occupied)) \cap target_mask) \cap RANK4)
                 \cup (north_one(our_king) \cap king_target_mask)
            [] d = South ->
                 (attack_south(ver_sliders, empty) \cap target_mask)
                 \cup (south_one(our_king) \cap king_target_mask)
            [] d = NorthEast ->
                 (attack_north_east(dia_sliders, empty) \cap target_mask)
                 \cup (north_east_one(dia_pawns) \cap targets)
                 \cup (north_east_one(dia_pawns \cap Not(all_inbetween_ep)) \cap ep_target)
                 \cup (north_east_one(our_king) \cap king_target_mask)
            [] d = SouthWest ->
                 (attack_south_west(dia_sliders, empty) \cap target_mask)
                 \cup (south_west_one(our_king) \cap king_target_mask)
            [] d = NorthWest ->
                 (attack_north_west(ant_sliders, empty) \cap target_mask)
                 \cup (north_west_one(ant_pawns) \cap targets)
                 \cup (north_west_one(ant_pawns \cap Not(all_inbetween_ep)) \cap ep_target)
                 \cup (north_west_one(our_king) \cap king_target_mask)
            [] d = SouthEast ->
                 (attack_south_east(ant_sliders, empty) \cap target_mask)
                 \cup (south_east_one(our_king) \cap king_target_mask)
            [] d = NorthNorthEast -> north_north_east(knights) \cap target_mask
            [] d = NorthEastEast -> north_east_east(knights) \cap target_mask
            [] d = SouthEastEast -> south_east_east(knights) \cap target_mask
            [] d = SouthSouthEast -> south_south_east(knights) \cap target_mask
            [] d = NorthNorthWest -> north_north_west(knights) \cap target_mask
            [] d = NorthWestWest -> north_west_west(knights) \cap target_mask
            [] d = SouthWestWest -> south_west_west(knights) \cap target_mask
            [] d = SouthSouthWest -> south_south_west(knights) \cap target_mask]

\* the masks of the first half handed to the second
CheckedMoves(state, color, ka) ==
    ValidMoves(state, color, ka, AllInbetween(ka), AllInbetweenEp(ka),
               TargetMask(state, color, ka))

move_targets(state, color) == CheckedMoves(state, color, KingAnalysis(state, color))

(***************************************************************************)
(* pub fn generate_moves(state) -> Vec<BitBoardMove>                       *)
(* The eight sliding loops share one shape: take the far end of the        *)
(* remaining targets, find its source on the ray back, push the move, then *)
(* walk back square by square to the source.  The four "positive" loops    *)
(* (North, East, NorthEast, NorthWest) start from the highest bit, the     *)
(* four "negative" ones (South, West, SouthWest, SouthEast) from the       *)
(* lowest.                                                                 *)
(***************************************************************************)
\* (mask as u16) & flag, for an all-ones or all-zero mask
MaskedFlag(mask, flag) == FlagNum({i \in FlagBits(flag) : i \in mask})

IsPositive(d) == d \in {North, East, NorthEast, NorthWest}
Step(d) ==
    CASE d \in {North, South} -> 8
      [] d \in {East, West} -> 1
      [] d \in {NorthEast, SouthWest} -> 9
      [] d \in {NorthWest, SouthEast} -> 7
BackRay(d) ==
    CASE d = North -> South [] d = South -> North
      [] d = East -> West [] d = West -> East
      [] d = NorthEast -> SouthWest [] d = SouthWest -> NorthEast
      [] d = NorthWest -> SouthEast [] d = SouthEast -> NorthWest

\* 63u32.saturating_sub(b.leading_zeros()) and b.trailing_zeros()
FarTarget(d, targets) ==
    IF IsPositive(d) THEN Max({0} \cup targets) ELSE trailing_zeros(targets)
source_square(d, target_square, occupied) ==
    LET back == (RAY_ATTACKS[BackRay(d)][target_square] \cap occupied) \ Bit(target_square)
    IN  IF IsPositive(d) THEN Max({0} \cup back) ELSE trailing_zeros(back)

capture(target_square, occupied) ==
    MaskedFlag(Not(is_empty(Bit(target_square) \cap occupied)), CAPTURE)
double_pawn_push(d, pawn, target_square) ==
    LET moved == IF d = North THEN Shl(pawn, 16) ELSE Shr(pawn, 16)
    IN  MaskedFlag(Not(is_empty(moved \cap Bit(target_square))), DOUBLE_PAWN_PUSH)
promotion(d, pawn) ==
    CASE d \in {North, NorthEast, NorthWest} -> Not(is_empty(Shl(pawn, 8) \cap RANK8)) # {}
      [] d \in {South, SouthWest, SouthEast} -> Not(is_empty(Shr(pawn, 8) \cap RANK1)) # {}
      [] OTHER -> FALSE
IsKing(state, square) ==
    LET p == get_piece(state.bitboard, square) IN p # <<>> /\ p[2] = King

\* flags of the first move of an outer iteration
FirstFlags(state, d, source, target, occupied, pawns) ==
    LET pawn == Bit(source) \cap pawns
    IN  CASE d \in {North, South} ->
               FlagOr(capture(target, occupied), double_pawn_push(d, pawn, target))
          [] d = East ->
               FlagOr(capture(target, occupied), IF IsKing(state, source) THEN QUEEN_CASTLE ELSE 0)
          [] OTHER -> capture(target, occupied)

\* flags of a move pushed while walking back towards the source
WalkFlags(state, d, source, target, occupied, pawns) ==
    LET pawn == Bit(source) \cap pawns
    IN  CASE d = North ->
               FlagOr(capture(target, occupied), double_pawn_push(d, pawn, target))
          [] d = West ->
               FlagOr(capture(target, occupied), IF IsKing(state, source) THEN KING_CASTLE ELSE 0)
          [] OTHER -> capture(target, occupied)

PushMoves(source, target, flags, promo) ==
    IF ~promo
    THEN <<BitBoardMove(source, target, flags)>>
    ELSE <<BitBoardMove(source, target, FlagOr(flags, QUEEN_PROMOTION)),
           BitBoardMove(source, target, FlagOr(flags, ROOK_PROMOTION)),
           BitBoardMove(source, target, FlagOr(flags, BISHOP_PROMOTION)),
           BitBoardMove(source, target, FlagOr(flags, KNIGHT_PROMOTION))>>

\* the inner loop: while target_square > source_square (resp. <)
RECURSIVE Walk(_, _, _, _, _, _, _)
Walk(state, d, targets, source, target, occupied, pawns) ==
    IF (IsPositive(d) /\ target > source) \/ (~IsPositive(d) /\ target < source)
    THEN LET bit == target \in targets
             next == IF IsPositive(d) THEN target - Step(d) ELSE target + Step(d)
             rest == Walk(state, d, targets \ {target}, source, next, occupied, pawns)
         IN  [moves |-> (IF bit
                         THEN <<BitBoardMove(source, target,
                                  WalkFlags(state, d, source, target, occupied, pawns))>>
                         ELSE <<>>) \o rest.moves,
              targets |-> rest.targets]
    ELSE [moves |-> <<>>, targets |-> targets]

\* the outer loop: while move_targets[d] != 0
RECURSIVE Slide(_, _, _, _, _)
\* the rest of an outer iteration, after the inner loop walk
SlideOn(state, d, walk, occupied, pawns) ==
    walk.moves \o Slide(state, d, walk.targets, occupied, pawns)
\* one outer iteration: the first move (a promotion pushes four), the inner loop
SlideFrom(state, d, targets, source, target, occupied, pawns) ==
    PushMoves(source, target, FirstFlags(state, d, source, target, occupied, pawns),
              promotion(d, Bit(source) \cap pawns))
    \o SlideOn(state, d,
               Walk(state, d, targets \ {target}, source,
                    IF IsPositive(d) THEN target - Step(d) ELSE target + Step(d),
                    occupied, pawns),
               occupied, pawns)
SlideTo(state, d, targets, target, occupied, pawns) ==
    SlideFrom(state, d, targets, source_square(d, target, occupied), target, occupied, pawns)
Slide(state, d, targets, occupied, pawns) ==
    IF targets = {}
    THEN <<>>
    ELSE SlideTo(state, d, targets, FarTarget(d, targets), occupied, pawns)

\* Knights: the source is one fixed jump back from the target
KnightBack(d, b) ==
    CASE d = NorthNorthEast -> south_south_west(b)
      [] d = NorthEastEast -> south_west_west(b)
      [] d = SouthEastEast -> north_west_west(b)
      [] d = SouthSouthEast -> north_north_west(b)
      [] d = NorthNorthWest -> south_south_east(b)
      [] d = NorthWestWest -> south_east_east(b)
      [] d = SouthWestWest -> north_east_east(b)
      [] d = SouthSouthWest -> north_north_east(b)

RECURSIVE Jump(_, _, _)
Jump(d, targets, occupied) ==
    IF targets = {}
    THEN <<>>
    ELSE LET target == trailing_zeros(targets)
             source == trailing_zeros(KnightBack(d, Bit(target)))
         IN  <<BitBoardMove(source, target, capture(target, occupied))>>
             \o Jump(d, targets \ {target}, occupied)

\* the un-mirroring of a move generated for Black
UnmirrorMove(m) ==
    LET m1 == set_to(m, trailing_zeros(swap_bytes(Bit(get_to(m)))))
    IN  set_from(m1, trailing_zeros(swap_bytes(Bit(get_from(m1)))))

\* the sixteen loops in the order of the code
PushAll(state, mt, occupied, pawns) ==
    Slide(state, North, mt[North], occupied, pawns)
    \o Slide(state, South, mt[South], occupied, pawns)
    \o Slide(state, East, mt[East], occupied, pawns)
    \o Slide(state, West, mt[West], occupied, pawns)
    \o Slide(state, NorthEast, mt[NorthEast], occupied, pawns)
    \o Slide(state, NorthWest, mt[NorthWest], occupied, pawns)
    \o Slide(state, SouthWest, mt[SouthWest], occupied, pawns)
    \o Slide(state, SouthEast, mt[SouthEast], occupied, pawns)
    \o Jump(NorthNorthEast, mt[NorthNorthEast], occupied)
    \o Jump(NorthEastEast, mt[NorthEastEast], occupied)
    \o Jump(SouthEastEast, mt[SouthEastEast], occupied)
    \o Jump(SouthSouthEast, mt[SouthSouthEast], occupied)
    \o Jump(NorthNorthWest, mt[NorthNorthWest], occupied)
    \o Jump(NorthWestWest, mt[NorthWestWest], occupied)
    \o Jump(SouthWestWest, mt[SouthWestWest], occupied)
    \o Jump(SouthSouthWest, mt[SouthSouthWest], occupied)

\* the moves of the side to move of a state seen from White's side
WhiteMoves(state) ==
    PushAll(state, move_targets(state, White), occupied_squares(state.bitboard),
            get_set(state.bitboard, White, Pawn))

UnmirrorAll(moves) == [i \in 1 .. Len(moves) |-> UnmirrorMove(moves[i])]

generate_moves(board) ==
    IF board.active_color = Black
    THEN UnmirrorAll(WhiteMoves(change_side(mirror_board(board))))
    ELSE WhiteMoves(board)

\* pub fn perft(board, depth) -> usize
RECURSIVE perft(_, _)
RECURSIVE PerftSum(_, _, _, _)
\* the loop over the moves, from the i-th on: apply_move, change_side, recurse
PerftSum(board, moves, depth, i) ==
    IF i > Len(moves)
    THEN 0
    ELSE perft(change_side(apply_move(board, moves[i])), depth - 1)
         + PerftSum(board, moves, depth, i + 1)
PerftMoves(board, moves, depth) ==
    IF depth = 1 THEN Len(moves) ELSE PerftSum(board, moves, depth, 1)
perft(board, depth) ==
    IF depth = 0 THEN 1 ELSE PerftMoves(board, generate_moves(board), depth)

(***************************************************************************)
(* interface.rs: the square codec.  A text is a sequence of one-character  *)
(* strings; Byte gives the ASCII code the code computes with, Char is its  *)
(* inverse.                                                                *)
(***************************************************************************)
LowerCase ==
  <<"a", "b", "c", "d", "e", "f", "g", "h", "i", "j", "k", "l", "m",
    "n", "o", "p", "q", "r", "s", "t", "u", "v", "w", "x", "y", "z">>
UpperCase ==
  <<"A", "B", "C", "D", "E", "F", "G", "H", "I", "J", "K", "L", "M",
    "N", "O", "P", "Q", "R", "S", "T", "U", "V", "W", "X", "Y", "Z">>
Digits == <<"0", "1", "2", "3", "4", "5", "6", "7", "8", "9">>
Punctuation == <<" ", "+", "-", "/", ":", "@", "[", "_", "{">>
PunctuationBytes == <<32, 43, 45, 47, 58, 64, 91, 95, 123>>
is_ascii_lowercase(c) == \E i \in 1 .. 26 : LowerCase[i] = c
is_ascii_uppercase(c) == \E i \in 1 .. 26 : UpperCase[i] = c
is_ascii_digit(c) == \E i \in 1 .. 10 : Digits[i] = c
Byte(c) ==
    CASE is_ascii_lowercase(c) -> 96 + (CHOOSE i \in 1 .. 26 : LowerCase[i] = c)
      [] is_ascii_uppercase(c) -> 64 + (CHOOSE i \in 1 .. 26 : UpperCase[i] = c)
      [] is_ascii_digit(c) -> 47 + (CHOOSE i \in 1 .. 10 : Digits[i] = c)
      [] OTHER -> PunctuationBytes[CHOOSE i \in 1 .. 9 : Punctuation[i] = c]
Char(b) ==
    CASE b \in 97 .. 122 -> LowerCase[b - 96]
      [] b \in 65 .. 90 -> UpperCase[b - 64]
      [] b \in 48 .. 57 -> Digits[b - 47]
      [] OTHER -> Punctuation[CHOOSE i \in 1 .. 9 : PunctuationBytes[i] = b]
IsDigit(c) == is_ascii_digit(c)
ToDigit(c) == Byte(c) - 48

\* Result<T, E>: Ok(state) for a position, OkValue(value) for an index, a move or
\* a text, Err(message)
Ok(state) == [ok |-> TRUE, state |-> state]
OkValue(value) == [ok |-> TRUE, value |-> value]
Err(message) == [ok |-> FALSE, err |-> message]
\* a call either returns a value or aborts (a Rust panic, which unwinds through
\* every caller)
Returned(value) == [completed |-> TRUE, value |-> value]
Aborted(why) == [completed |-> FALSE, why |-> why]

\* algebraic_to_index that knows lower-case file letters only
algebraic_to_index_lower_only(s) ==
    IF Len(s) = 2 /\ Byte(s[1]) \in 97 .. 104 /\ Byte(s[2]) \in 49 .. 56
    THEN OkValue((Byte(s[2]) - 49) * 8 + (Byte(s[1]) - 97))
    ELSE Err("")

\* the two match expressions and the final range check; "file" and "rank" are
\* the u8 values of the arms that do not return
SquareIndex(file, rank) ==
    IF rank * 8 + file >= 64 THEN Err("") ELSE OkValue(rank * 8 + file)
algebraic_to_index(s) ==
    IF Len(s) # 2
    THEN Err("len = 2")
    ELSE IF is_ascii_lowercase(s[1]) /\ (Byte(s[1]) < 97 \/ Byte(s[1]) > 104)
    THEN Err("Alpha not in range")
    ELSE IF is_ascii_uppercase(s[1]) /\ (Byte(s[1]) < 65 \/ Byte(s[1]) > 72)
    THEN Err("Alpha not in range")
    ELSE IF ~is_ascii_lowercase(s[1]) /\ ~is_ascii_uppercase(s[1])
    THEN Err("")
    ELSE IF is_ascii_digit(s[2]) /\ (Byte(s[2]) > 56 \/ Byte(s[2]) < 49)
    THEN Err("Numeric not in range")
    ELSE IF ~is_ascii_digit(s[2])
    THEN Err("")
    ELSE SquareIndex(IF is_ascii_lowercase(s[1]) THEN Byte(s[1]) - 97 ELSE Byte(s[1]) - 65,
                     Byte(s[2]) - 49)

\* value is cast to u8 before the arithmetic
index_to_algebraic(value) ==
    <<Char(((value % 256) % 8) + 97), Char(((value % 256) \div 8) + 49)>>

(***************************************************************************)
(* bitboard.rs: BitBoardMove in long algebraic notation                    *)
(***************************************************************************)
PromotionFlag(c) ==
    CASE c \in {"q", "Q"} -> QUEEN_PROMOTION
      [] c \in {"n", "N"} -> KNIGHT_PROMOTION
      [] c \in {"b", "B"} -> BISHOP_PROMOTION
      [] c \in {"r", "R"} -> ROOK_PROMOTION
      [] OTHER -> 0

\* from_long_algebraic that never reads a fifth character
from_long_algebraic_four(from) ==
    IF Len(from) < 4
       \/ ~algebraic_to_index(<<from[1], from[2]>>).ok
       \/ ~algebraic_to_index(<<from[3], from[4]>>).ok
    THEN Err("")
    ELSE OkValue(BitBoardMove(algebraic_to_index(<<from[1], from[2]>>).value,
                              algebraic_to_index(<<from[3], from[4]>>).value, 0))

from_long_algebraic(from) ==
    IF Len(from) < 4
    THEN Err("")
    ELSE IF ~algebraic_to_index(<<from[1], from[2]>>).ok
    THEN Err("")
    ELSE IF ~algebraic_to_index(<<from[3], from[4]>>).ok
    THEN Err("")
    ELSE OkValue(BitBoardMove(algebraic_to_index(<<from[1], from[2]>>).value,
                              algebraic_to_index(<<from[3], from[4]>>).value,
                              IF Len(from) = 5 THEN PromotionFlag(from[5]) ELSE 0))

PromotionSuffix(flags) ==
    CASE flags \in {QUEEN_PROMOTION, QUEEN_PROMOTION_CAPTURE} -> <<"q">>
      [] flags \in {BISHOP_PROMOTION, BISHOP_PROMOTION_CAPTURE} -> <<"b">>
      [] flags \in {KNIGHT_PROMOTION, KNIGHT_PROMOTION_CAPTURE} -> <<"n">>
      [] flags \in {ROOK_PROMOTION, ROOK_PROMOTION_CAPTURE} -> <<"r">>
      [] OTHER -> <<>>
to_long_algebraic(m) ==
    OkValue(index_to_algebraic(get_from(m)) \o index_to_algebraic(get_to(m))
            \o PromotionSuffix(get_flags(m)))

(***************************************************************************)
(* BitBoardState::from_fen.  A FEN string is a sequence of its             *)
(* whitespace-separated fields, each a sequence of one-character strings.  *)
(***************************************************************************)
\* board.rs ASCII_PIECES, both cases; the position modulo 6 is the Piece
ASCII_PIECES == <<"K", "Q", "R", "B", "N", "P", "k", "q", "r", "b", "n", "p">>
IsPieceChar(c) == \E i \in 1 .. 12 : ASCII_PIECES[i] = c
PieceIndex(c) == (CHOOSE i \in 1 .. 12 : ASCII_PIECES[i] = c) - 1
EmptyBoard == [i \in 0 .. 11 |-> {}]

\* the loop over the characters of the board field.  "file" and "rank" are
\* the loop's u32 counters, kept as integers congruent to them modulo 2^32:
\* only 1 << (rank * 8 + file) reads them, and a build without overflow checks
\* takes the shift modulo 64.  A build with overflow checks panics at the
\* subtraction below zero and at a shift by 64 or more.
RECURSIVE FenBoard(_, _, _, _, _, _)
FenBoard(cs, i, file, rank, bitboard, overflow_checks) ==
    CASE i > Len(cs) -> Returned(OkValue(bitboard))
      [] i <= Len(cs) /\ cs[i] = "/" /\ overflow_checks /\ rank = 0 ->
            Aborted("attempt to subtract with overflow")
      [] i <= Len(cs) /\ cs[i] = "/" /\ ~(overflow_checks /\ rank = 0) ->
            FenBoard(cs, i + 1, 0, rank - 1, bitboard, overflow_checks)
      [] i <= Len(cs) /\ is_ascii_digit(cs[i]) ->
            FenBoard(cs, i + 1, file + ToDigit(cs[i]), rank, bitboard, overflow_checks)
      [] i <= Len(cs) /\ IsPieceChar(cs[i]) /\ overflow_checks /\ rank * 8 + file >= 64 ->
            Aborted("attempt to shift left with overflow")
      [] i <= Len(cs) /\ IsPieceChar(cs[i]) /\ ~(overflow_checks /\ rank * 8 + file >= 64) ->
            FenBoard(cs, i + 1, file + 1, rank,
                     set_piece(bitboard, rank * 8 + file,
                               PieceIndex(cs[i]) \div 6, PieceIndex(cs[i]) % 6),
                     overflow_checks)
      [] OTHER -> Returned(Err("Unexpected character"))

Contains(cs, c) == \E i \in 1 .. Len(cs) : cs[i] = c
FenCastling(cs) ==
    (IF Contains(cs, "K") THEN CASTLE_WHITE_KING ELSE {})
    \cup (IF Contains(cs, "Q") THEN CASTLE_WHITE_QUEEEN ELSE {})
    \cup (IF Contains(cs, "k") THEN CASTLE_BLACK_KING ELSE {})
    \cup (IF Contains(cs, "q") THEN CASTLE_BLACK_QUEEN ELSE {})

\* algebraic_to_index(..).unwrap_or(64)
AlgebraicOr64(cs) ==
    IF algebraic_to_index(cs).ok THEN algebraic_to_index(cs).value ELSE 64

\* str::parse::<u8>() and ::<u16>(): an optional "+", then one or more digits,
\* and no value above the type's maximum at any step
RECURSIVE ParseNumber(_, _, _, _)
ParseNumber(cs, i, acc, max) ==
    IF i > Len(cs)
    THEN OkValue(acc)
    ELSE IF ~is_ascii_digit(cs[i])
    THEN Err("invalid digit found in string")
    ELSE IF acc * 10 + ToDigit(cs[i]) > max
    THEN Err("number too large to fit in target type")
    ELSE ParseNumber(cs, i + 1, acc * 10 + ToDigit(cs[i]), max)
parse(cs, max) ==
    IF Len(cs) = 0
    THEN Err("cannot parse integer from empty string")
    ELSE IF cs[1] = "+"
    THEN IF Len(cs) = 1
         THEN Err("invalid digit found in string")
         ELSE ParseNumber(cs, 2, 0, max)
    ELSE ParseNumber(cs, 1, 0, max)
U8_MAX == 255
U16_MAX == 65535

Field(fen, k, default) == IF Len(fen) >= k THEN fen[k] ELSE default

\* the rest of from_fen, once the loop has given the bitboard
FenState(fen, bitboard, half_moves, full_moves) ==
    IF ~half_moves.ok \/ ~full_moves.ok
    THEN Aborted("called Result::unwrap() on an Err value: ParseIntError")
    ELSE Returned(Ok([bitboard |-> bitboard,
                      active_color |-> IF Field(fen, 2, <<"w">>) = <<"b">> THEN Black ELSE White,
                      castling |-> FenCastling(Field(fen, 3, <<"K", "Q", "k", "q">>)),
                      en_passant |-> AlgebraicOr64(Field(fen, 4, <<"-">>)),
                      half_moves |-> half_moves.value,
                      full_moves |-> full_moves.value]))
FenAfterBoard(fen, loop) ==
    IF ~loop.completed \/ ~loop.value.ok
    THEN loop
    ELSE FenState(fen, loop.value.value, parse(Field(fen, 5, <<"0">>), U8_MAX),
                  parse(Field(fen, 6, <<"1">>), U16_MAX))

\* from_fen in a build with or without overflow checks: Returned(Ok(state)),
\* Returned(Err(message)) or Aborted(panic message)
from_fen(fen, overflow_checks) ==
    IF Len(fen) = 0
    THEN Returned(Err("FEN is empty"))
    ELSE FenAfterBoard(fen, FenBoard(fen[1], 1, 0, 7, EmptyBoard, overflow_checks))

\* The FEN strings of the perft tests (mod tests in bitboard.rs)
\* fn position_1
StartFen ==
  <<<<"r", "n", "b", "q", "k", "b", "n", "r", "/", "p", "p", "p", "p", "p", "p", "p", "p", "/", "8", "/", "8", "/", "8", "/", "8", "/", "P", "P", "P", "P", "P", "P", "P", "P", "/", "R", "N", "B", "Q", "K", "B", "N", "R">>,
     <<"w">>,
     <<"K", "Q", "k", "q">>,
     <<"-">>,
     <<"0">>,
     <<"1">>>>
\* fn position_2
Position2Fen ==
  <<<<"r", "3", "k", "2", "r", "/", "p", "1", "p", "p", "q", "p", "b", "1", "/", "b", "n", "2", "p", "n", "p", "1", "/", "3", "P", "N", "3", "/", "1", "p", "2", "P", "3", "/", "2", "N", "2", "Q", "1", "p", "/", "P", "P", "P", "B", "B", "P", "P", "P", "/", "R", "3", "K", "2", "R">>,
     <<"w">>,
     <<"K", "Q", "k", "q">>,
     <<"-">>>>
\* fn position_3
Position3Fen ==
  <<<<"8", "/", "2", "p", "5", "/", "3", "p", "4", "/", "K", "P", "5", "r", "/", "1", "R", "3", "p", "1", "k", "/", "8", "/", "4", "P", "1", "P", "1", "/", "8">>,
     <<"w">>,
     <<"-">>,
     <<"-">>>>
\* fn position_4
Position4Fen ==
  <<<<"r", "3", "k", "2", "r", "/", "P", "p", "p", "p", "1", "p", "p", "p", "/", "1", "b", "3", "n", "b", "N", "/", "n", "P", "6", "/", "B", "B", "P", "1", "P", "3", "/", "q", "4", "N", "2", "/", "P", "p", "1", "P", "2", "P", "P", "/", "R", "2", "Q", "1", "R", "K", "1">>,
     <<"w">>,
     <<"k", "q">>,
     <<"-">>,
     <<"0">>,
     <<"1">>>>
\* fn position_5
Position5Fen ==
  <<<<"r", "n", "b", "q", "1", "k", "1", "r", "/", "p", "p", "1", "P", "b", "p", "p", "p", "/", "2", "p", "5", "/", "8", "/", "2", "B", "5", "/", "8", "/", "P", "P", "P", "1", "N", "n", "P", "P", "/", "R", "N", "B", "Q", "K", "2", "R">>,
     <<"w">>,
     <<"K", "Q">>,
     <<"-">>,
     <<"1">>,
     <<"8">>>>
\* fn position_6
Position6Fen ==
  <<<<"r", "4", "r", "k", "1", "/", "1", "p", "p", "1", "q", "p", "p", "p", "/", "p", "1", "n", "p", "1", "n", "2", "/", "2", "b", "1", "p", "1", "B", "1", "/", "2", "B", "1", "P", "1", "b", "1", "/", "P", "1", "N", "P", "1", "N", "2", "/", "1", "P", "P", "1", "Q", "P", "P", "P", "/", "R", "4", "R", "K", "1">>,
     <<"w">>,
     <<"-">>,
     <<"-">>,
     <<"0">>,
     <<"1", "0">>>>

\* impl Default for BitBoardState
Default == from_fen(StartFen, FALSE).value.state

(***************************************************************************)
(* The rules of chess, stated on a mailbox view of a position and          *)
(* independently of the generator: what the properties below compare the   *)
(* program against.                                                        *)
(***************************************************************************)
\* square -> colour * 6 + piece, or 12 for an empty square
Mailbox(bitboard) ==
    [sq \in Squares |->
        IF \E i \in 0 .. 11 : sq \in bitboard[i]
        THEN CHOOSE i \in 0 .. 11 : sq \in bitboard[i]
        ELSE 12]
Abs(x) == IF x < 0 THEN 0 - x ELSE x
FileOf(sq) == sq % 8
RankOf(sq) == sq \div 8
Opposite(color) == IF color = White THEN Black ELSE White
IsPiece(b, sq, color, piece) == b[sq] = color * 6 + piece
IsColor(b, sq, color) == b[sq] # 12 /\ b[sq] \div 6 = color

\* the squares strictly between two squares of one rank, file or diagonal
Between(a, c) ==
    LET df == FileOf(c) - FileOf(a)
        dr == RankOf(c) - RankOf(a)
        n == Max({Abs(df), Abs(dr)})
    IN  {a + k * ((df \div n) + 8 * (dr \div n)) : k \in 1 .. n - 1}
OnLine(a, c) == a # c /\ (FileOf(a) = FileOf(c) \/ RankOf(a) = RankOf(c))
OnDiagonal(a, c) ==
    a # c /\ Abs(FileOf(a) - FileOf(c)) = Abs(RankOf(a) - RankOf(c))
KnightJump(a, c) ==
    {Abs(FileOf(a) - FileOf(c)), Abs(RankOf(a) - RankOf(c))} = {1, 2}
KingStep(a, c) ==
    a # c /\ Abs(FileOf(a) - FileOf(c)) <= 1 /\ Abs(RankOf(a) - RankOf(c)) <= 1
\* a pawn of the colour standing on a attacks c
PawnAttack(color, a, c) ==
    /\ Abs(FileOf(a) - FileOf(c)) = 1
    /\ RankOf(c) - RankOf(a) = (IF color = White THEN 1 ELSE -1)

\* the piece standing on a attacks the square c on the board b
Attacks(b, a, c) ==
    LET piece == b[a] % 6
    IN  /\ b[a] # 12
        /\ CASE piece = Pawn -> PawnAttack(b[a] \div 6, a, c)
             [] piece = Knight -> KnightJump(a, c)
             [] piece = King -> KingStep(a, c)
             [] piece = Rook -> OnLine(a, c) /\ \A x \in Between(a, c) : b[x] = 12
             [] piece = Bishop -> OnDiagonal(a, c) /\ \A x \in Between(a, c) : b[x] = 12
             [] piece = Queen -> (OnLine(a, c) \/ OnDiagonal(a, c))
                                 /\ \A x \in Between(a, c) : b[x] = 12
\* the pieces of a colour that attack the square c
Attackers(b, c, color) == {a \in Squares : IsColor(b, a, color) /\ Attacks(b, a, c)}
Attacked(b, c, color) == \E a \in Squares : IsColor(b, a, color) /\ Attacks(b, a, c)
KingSquares(b, color) == {sq \in Squares : IsPiece(b, sq, color, King)}
InCheck(b, color) == \E k \in KingSquares(b, color) : Attacked(b, k, Opposite(color))
Checkers(b, color) ==
    UNION {Attackers(b, k, Opposite(color)) : k \in KingSquares(b, color)}

\* the board after the piece on from went to to (and the pawn on gone, if any, left)
MovedBoard(b, from, to, gone) ==
    [sq \in Squares |->
        IF sq = to THEN b[from] ELSE IF sq = from \/ sq \in gone THEN 12 ELSE b[sq]]

HomeRank(color) == IF color = White THEN 0 ELSE 7
Forward(color) == IF color = White THEN 8 ELSE -8

\* the piece on from may go to to by the rules of movement (king safety aside);
\* ep says that the move is an en-passant capture
Reach(s, b, from, to, ep) ==
    LET color == s.active_color
        piece == b[from] % 6
        free == b[to] = 12
        enemy == IsColor(b, to, Opposite(color))
    IN  /\ IsColor(b, from, color)
        /\ from # to
        /\ IF piece = Pawn
           THEN \/ ~ep /\ to = from + Forward(color) /\ free
                \/ /\ ~ep /\ to = from + 2 * Forward(color) /\ free
                   /\ b[from + Forward(color)] = 12
                   /\ RankOf(from) = Abs(HomeRank(color) - 1)
                \/ ~ep /\ PawnAttack(color, from, to) /\ enemy
                \/ /\ ep /\ PawnAttack(color, from, to) /\ free
                   /\ to = s.en_passant
                   /\ RankOf(to) = Abs(HomeRank(color) - 5)
                   /\ IsPiece(b, to - Forward(color), Opposite(color), Pawn)
           ELSE ~ep /\ (free \/ enemy) /\ Attacks(b, from, to)

\* the side to move may castle with the rook on rook_sq under the rules
CastleAllowed(s, b, rook_sq) ==
    LET color == s.active_color
        home == HomeRank(color) * 8 + 4
        king_flag == IF color = White THEN WHITE_KING ELSE BLACK_KING
        rook_flag == CASE rook_sq = 0 -> WHITE_A_ROOK [] rook_sq = 7 -> WHITE_H_ROOK
                       [] rook_sq = 56 -> BLACK_A_ROOK [] rook_sq = 63 -> BLACK_H_ROOK
        dir == IF rook_sq > home THEN 1 ELSE -1
    IN  /\ IsPiece(b, home, color, King)
        /\ IsPiece(b, rook_sq, color, Rook)
        /\ king_flag \in s.castling /\ rook_flag \in s.castling
        /\ \A x \in Between(home, rook_sq) : b[x] = 12
        /\ \A x \in {home, home + dir, home + 2 * dir} : ~Attacked(b, x, Opposite(color))

PromotionKinds == {QUEEN_PROMOTION, ROOK_PROMOTION, BISHOP_PROMOTION, KNIGHT_PROMOTION}

\* the legal moves of the side to move, as triples <<origin, destination,
\* promotion kind>>, the kind being 0 when the move is no promotion
LegalMoves(s) ==
    LET b == Mailbox(s.bitboard)
        color == s.active_color
        home == HomeRank(color) * 8 + 4
        own == {sq \in Squares : IsColor(b, sq, color)}
        plain == {x \in own \X Squares \X BOOLEAN :
                    /\ Reach(s, b, x[1], x[2], x[3])
                    /\ ~InCheck(MovedBoard(b, x[1], x[2],
                                 IF x[3] THEN {x[2] - Forward(color)} ELSE {}), color)}
        promoting == {x \in plain : IsPiece(b, x[1], color, Pawn)
                                    /\ RankOf(x[2]) = 7 - HomeRank(color)}
        castles == {<<home, home + 2 * d, 0>> : d \in {e \in {-1, 1} :
                        CastleAllowed(s, b, HomeRank(color) * 8 + (IF e = 1 THEN 7 ELSE 0))}}
    IN  {<<x[1], x[2], 0>> : x \in plain \ promoting}
        \cup {<<x[1], x[2], k>> : x \in promoting, k \in PromotionKinds}
        \cup castles

\* a generated move as the triple <<origin, destination, promotion kind>>
MoveTriple(m) ==
    <<get_from(m), get_to(m),
      IF get_flags(m) >= KNIGHT_PROMOTION THEN FlagKind(m) ELSE 0>>
GeneratedSet(s) ==
    LET moves == generate_moves(s) IN {MoveTriple(moves[i]) : i \in 1 .. Len(moves)}

\* the five invariants of the data model
OneKingEach(s) ==
    Cardinality(get_set(s.bitboard, White, King)) = 1
    /\ Cardinality(get_set(s.bitboard, Black, King)) = 1
PairwiseDisjoint(s) ==
    \A i \in 0 .. 11 : \A j \in 0 .. 11 : i # j => s.bitboard[i] \cap s.bitboard[j] = {}
NoPawnOnEndRank(s) ==
    (get_set(s.bitboard, White, Pawn) \cup get_set(s.bitboard, Black, Pawn))
    \cap (RANK1 \cup RANK8) = {}
EnPassantRank(s) == s.en_passant = 64 \/ RankOf(s.en_passant) \in {2, 5}
CastlingHome(s) ==
    /\ WHITE_KING \in s.castling => 4 \in get_set(s.bitboard, White, King)
    /\ WHITE_A_ROOK \in s.castling => 0 \in get_set(s.bitboard, White, Rook)
    /\ WHITE_H_ROOK \in s.castling => 7 \in get_set(s.bitboard, White, Rook)
    /\ BLACK_KING \in s.castling => 60 \in get_set(s.bitboard, Black, King)
    /\ BLACK_A_ROOK \in s.castling => 56 \in get_set(s.bitboard, Black, Rook)
    /\ BLACK_H_ROOK \in s.castling => 63 \in get_set(s.bitboard, Black, Rook)
ValidPosition(s) ==
    OneKingEach(s) /\ PairwiseDisjoint(s) /\ NoPawnOnEndRank(s)
    /\ EnPassantRank(s) /\ CastlingHome(s)

(***************************************************************************)
(* evaluation.rs                                                           *)
(***************************************************************************)
piece_value(piece) ==
    CASE piece = King -> 0
      [] piece = Queen -> 900
      [] piece = Rook -> 500
      [] piece = Bishop -> 300
      [] piece = Knight -> 300
      [] piece = Pawn -> 100
\* the five terms added for evaluate_color and subtracted for opposite_color;
\* count_ones is the number of squares of the set
MaterialTerms(bitboard, color) ==
    Cardinality(get_set(bitboard, color, Pawn))
    + Cardinality(get_set(bitboard, color, Rook)) * piece_value(Rook)
    + Cardinality(get_set(bitboard, color, Bishop)) * piece_value(Bishop)
    + Cardinality(get_set(bitboard, color, Knight)) * piece_value(Knight)
    + Cardinality(get_set(bitboard, color, Queen)) * piece_value(Queen)
\* 10 * (our_moves - their_moves) as i64: the subtraction is on usize, where a
\* build with overflow checks panics below zero; a build without wraps, and
\* the cast to i64 gives the negative difference
MoveVal(our_moves, their_moves, overflow_checks) ==
    IF overflow_checks /\ our_moves < their_moves
    THEN Aborted("attempt to subtract with overflow")
    ELSE Returned(10 * (our_moves - their_moves))
AddMoveVal(value, move_val) ==
    IF move_val.completed THEN Returned(value + move_val.value) ELSE move_val
evaluate_bitboard(bitboard, evaluate_color, overflow_checks) ==
    AddMoveVal(MaterialTerms(bitboard.bitboard, evaluate_color)
                   - MaterialTerms(bitboard.bitboard, OppositeColor(evaluate_color)),
               MoveVal(Len(generate_moves([bitboard EXCEPT !.active_color = evaluate_color])),
                       Len(generate_moves([bitboard EXCEPT
                                               !.active_color = OppositeColor(evaluate_color)])),
                       overflow_checks))

(***************************************************************************)
(* search.rs: SearchDriver.  A call either returns a value or aborts (a    *)
(* Rust panic, which unwinds through every caller).                        *)
(***************************************************************************)

\* SearchDriver::new: Vec::with_capacity reserves 2^size slots and leaves the
\* length of the table 0; nothing in the program pushes to it
SearchDriver_new(size) == [transposition_table |-> <<>>, capacity |-> 2 ^ size]

\* hash as usize % self.transposition_table.len(), the index of every table
\* access; the hash itself (zobrist_hash) decides nothing when the length is 0
TableIndex(driver, hash) ==
    IF Len(driver.transposition_table) = 0
    THEN Aborted("attempt to calculate the remainder with a divisor of zero")
    ELSE Returned(hash % Len(driver.transposition_table))

\* alpha_beta_max and alpha_beta_min: whatever the depth, the first effect is
\* a table access (depth 0: the store of the evaluation; depth > 0: the
\* probe), and with a driver made by SearchDriver::new that access aborts
alpha_beta_max(driver, bitboard, color, alpha, beta, depth) == TableIndex(driver, 0)
alpha_beta_min(driver, bitboard, color, alpha, beta, depth) == TableIndex(driver, 0)

\* evaluate_moves: every generated move is applied to a clone (no change of
\* side) and valued by alpha_beta_max; an abort in one worker aborts the call
MoveValues(driver, bitboard, moves, depth) ==
    [i \in 1 .. Len(moves) |->
        alpha_beta_max(driver, apply_move(bitboard, moves[i]),
                       bitboard.active_color, "i64::MIN", "i64::MAX", depth)]
CollectHeap(moves, values) ==
    IF \E i \in 1 .. Len(moves) : ~values[i].completed
    THEN values[CHOOSE i \in 1 .. Len(moves) : ~values[i].completed]
    ELSE Returned({[value |-> values[i].value, m |-> moves[i]] : i \in 1 .. Len(moves)})
EvaluateAll(driver, bitboard, moves, depth) ==
    CollectHeap(moves, MoveValues(driver, bitboard, moves, depth))
evaluate_moves(driver, bitboard, depth) ==
    EvaluateAll(driver, bitboard, generate_moves(bitboard), depth)

\* best_move: moves.pop().unwrap().m, the possible outcomes of the call.  pop
\* gives an entry of greatest value, None on an empty heap
PopUnwrap(heap) ==
    IF ~heap.completed
    THEN {heap}
    ELSE IF heap.value = {}
    THEN {Aborted("called Option::unwrap() on a None value")}
    ELSE {Returned(e.m) : e \in {x \in heap.value : \A y \in heap.value : y.value <= x.value}}
best_move(driver, bitboard, depth) == PopUnwrap(evaluate_moves(driver, bitboard, depth))

(***************************************************************************)
(* Positions the runs start from, beside the six of the perft tests        *)
(***************************************************************************)
\* Black has just played d7d5 with check; e5 takes d6 en passant is the legal capture of the checker
EnPassantCheckFen ==
  <<<<"7", "k", "/", "8", "/", "8", "/", "3", "p", "P", "3", "/", "4", "K", "3", "/", "8", "/", "8", "/", "8">>,
     <<"w">>,
     <<"-">>,
     <<"d", "6">>,
     <<"0">>,
     <<"1">>>>
\* a knight went c1 to d3 and uncovered the rook on a1: double check
CornerCheckFen ==
  <<<<"7", "k", "/", "8", "/", "8", "/", "8", "/", "8", "/", "3", "n", "4", "/", "4", "P", "3", "/", "r", "3", "K", "3">>,
     <<"w">>,
     <<"-">>,
     <<"-">>,
     <<"0">>,
     <<"1">>>>
\* the king on e1, with the short castle open, is in check on the e-file
CastleInCheckFen ==
  <<<<"4", "r", "2", "k", "/", "8", "/", "8", "/", "8", "/", "8", "/", "8", "/", "8", "/", "4", "K", "2", "R">>,
     <<"w">>,
     <<"K">>,
     <<"-">>,
     <<"0">>,
     <<"1">>>>
\* Black can push e7e5 past a white pawn on d7
PawnOnSeventhFen ==
  <<<<"7", "k", "/", "3", "P", "p", "3", "/", "8", "/", "8", "/", "8", "/", "8", "/", "8", "/", "K", "7">>,
     <<"b">>,
     <<"-">>,
     <<"-">>,
     <<"0">>,
     <<"1">>>>
RootFens ==
    <<StartFen, Position2Fen, Position3Fen, Position4Fen, Position5Fen, Position6Fen,
      EnPassantCheckFen, CornerCheckFen, CastleInCheckFen, PawnOnSeventhFen>>
TestPosition(i) == from_fen(RootFens[i], FALSE).value.state
RootPositions == {TestPosition(i) : i \in 1 .. Len(RootFens)}

(***************************************************************************)
(* board.rs and move_gen.rs: the mailbox Board with its history, and its   *)
(* make/unmake move generator.  pieces[i] is 12 for None and               *)
(* color * 6 + piece for Some((color, piece)); en_passant is 0 for None    *)
(* (an Option<NonZeroU8>); a Move is [start_index, end_index, flag] with   *)
(* flag "None" or the name of the MoveFlag.  No function of the two files  *)
(* writes the field bit_board after from_fen, so it is left out.           *)
(***************************************************************************)
\* const DIRECTION_OFFSETS: N, S, W, E, NW, SE, NE, SW (slot d is element d + 1)
DIRECTION_OFFSETS == <<8, -8, -1, 1, 7, -7, 9, -9>>
\* const NUM_SQUARE_TO_EDGE[index]: the number of squares to the edge in each
\* of the eight directions
NUM_SQUARE_TO_EDGE ==
    [index \in 0 .. 63 |->
        LET num_north == 7 - (index \div 8)
            num_south == index \div 8
            num_west == index % 8
            num_east == 7 - (index % 8)
        IN  <<num_north, num_south, num_west, num_east,
              Min({num_north, num_west}), Min({num_south, num_east}),
              Min({num_north, num_east}), Min({num_south, num_west})>>]
KNIGHT_MOVES == <<15, 17, -17, -15, 6, -10, 10, -6>>

\* Move::new and Move::new_flag
Move_new(start, end) == [start_index |-> start, end_index |-> end, flag |-> "None"]
Move_new_flag(start, end, flag) == [start_index |-> start, end_index |-> end, flag |-> flag]

RECURSIVE Flatten(_)
Flatten(seqs) == IF seqs = <<>> THEN <<>> ELSE Head(seqs) \o Flatten(Tail(seqs))
\* (start as i32 + offset) as usize: a negative sum becomes an index of 64 or more
AsUsize(x) == IF x < 0 THEN 64 ELSE x
IsOwn(b, sq) == b.pieces[sq] # 12 /\ b.pieces[sq] \div 6 = b.active_color
IsEnemy(b, sq) == b.pieces[sq] # 12 /\ b.pieces[sq] \div 6 # b.active_color

\* one direction of gen_sliding_moves: the squares up to the first piece, that
\* piece's square included when it is of the other colour
SlideSquares(b, start, dir_index) ==
    [n \in 1 .. NUM_SQUARE_TO_EDGE[start][dir_index + 1] |->
        start + DIRECTION_OFFSETS[dir_index + 1] * n]
FirstPiece(b, squares) ==
    IF \E n \in 1 .. Len(squares) : b.pieces[squares[n]] # 12
    THEN Min({n \in 1 .. Len(squares) : b.pieces[squares[n]] # 12})
    ELSE Len(squares) + 1
SlideCount(b, squares, first) ==
    IF first <= Len(squares) /\ IsEnemy(b, squares[first]) THEN first ELSE first - 1
SlideMoves(b, start, squares) ==
    [n \in 1 .. SlideCount(b, squares, FirstPiece(b, squares)) |-> Move_new(start, squares[n])]
gen_sliding_moves(b, start) ==
    LET piece == b.pieces[start] % 6
        start_dir == IF piece = Bishop THEN 4 ELSE 0
        end_dir == IF piece = Rook THEN 4 ELSE 8
    IN  Flatten([k \in 1 .. end_dir - start_dir |->
                    SlideMoves(b, start, SlideSquares(b, start, start_dir + k - 1))])

\* the capture of gen_pawn_moves to one side: side is 1 for "Right" (the
\* neighbour start + 1) and -1 for "Left" (the neighbour start - 1)
PawnCapture(b, start, target_square, side) ==
    IF target_square < 64 /\ target_square % 8 # (IF side = 1 THEN 0 ELSE 7)
    THEN (IF IsEnemy(b, target_square)
          THEN (IF target_square \div 8 = 0 \/ target_square \div 8 = 7
                THEN <<Move_new_flag(start, target_square, "PromoteQueen")>>
                ELSE <<Move_new(start, target_square)>>)
          ELSE <<>>)
         \o (IF b.en_passant # 0 /\ b.en_passant = target_square
                /\ b.pieces[start + side] # 12 /\ b.pieces[start + side] % 6 = Pawn
                /\ b.pieces[start + side] \div 6 # b.active_color
             THEN <<Move_new_flag(start, target_square, "EnPassantCapture")>>
             ELSE <<>>)
    ELSE <<>>
PawnAdvance(b, start, color, target_square) ==
    IF target_square < 64 /\ b.pieces[target_square] = 12
    THEN (IF target_square \div 8 = 0 \/ target_square \div 8 = 7
          THEN <<Move_new_flag(start, target_square, "PromoteQueen")>>
          ELSE <<Move_new(start, target_square)>>)
         \o (IF (color = White /\ start \div 8 = 1) \/ (color = Black /\ start \div 8 = 6)
             THEN (IF b.pieces[start + DIRECTION_OFFSETS[color + 1] * 2] = 12
                   THEN <<Move_new_flag(start, start + DIRECTION_OFFSETS[color + 1] * 2,
                                        "InitialMove")>>
                   ELSE <<>>)
             ELSE <<>>)
    ELSE <<>>
gen_pawn_moves(b, start) ==
    LET direction == b.pieces[start] \div 6
    IN  PawnAdvance(b, start, direction, AsUsize(start + DIRECTION_OFFSETS[direction + 1]))
        \o PawnCapture(b, start, AsUsize(start + DIRECTION_OFFSETS[6 - direction + 1]), 1)
        \o PawnCapture(b, start, AsUsize(start + DIRECTION_OFFSETS[4 + direction * 3 + 1]), -1)

\* a move to target_square unless a piece of the side to move stands there
StepMove(b, start, target_square) ==
    IF IsOwn(b, target_square) THEN <<>> ELSE <<Move_new(start, target_square)>>
gen_king_moves(b, start) ==
    Flatten([k \in 1 .. 8 |->
                IF NUM_SQUARE_TO_EDGE[start][k] # 0
                THEN StepMove(b, start, start + DIRECTION_OFFSETS[k])
                ELSE <<>>])
\* slot k stands for dir_index = (k - 1) \div 2 and i = (k - 1) % 2
gen_knight_moves(b, start) ==
    Flatten([k \in 1 .. 8 |->
                LET dir_index == (k - 1) \div 2
                    i == (k - 1) % 2
                IN  IF /\ NUM_SQUARE_TO_EDGE[start][dir_index + 1] >= 2
                       /\ \/ dir_index \div 2 = 0 /\ NUM_SQUARE_TO_EDGE[start][i + 2 + 1] >= 1
                          \/ dir_index \div 2 = 1 /\ NUM_SQUARE_TO_EDGE[start][i + 1] >= 1
                    THEN StepMove(b, start, start + KNIGHT_MOVES[dir_index * 2 + i + 1])
                    ELSE <<>>])

PieceMoves(b, start) ==
    IF ~IsOwn(b, start) THEN <<>>
    ELSE CASE b.pieces[start] % 6 \in {Bishop, Rook, Queen} -> gen_sliding_moves(b, start)
           [] b.pieces[start] % 6 = Knight -> gen_knight_moves(b, start)
           [] b.pieces[start] % 6 = King -> gen_king_moves(b, start)
           [] OTHER -> gen_pawn_moves(b, start)
generate_pseudo_legal_moves(b) == Flatten([k \in 1 .. 64 |-> PieceMoves(b, k - 1)])

\* Board::from_fen on a text with a board of eight ranks of eight squares and
\* counters that parse: the loop walks the board field as the loop of
\* BitBoardState::from_fen does, the castling field is read and dropped, and
\* the en-passant square goes through NonZeroU8::new (a1 and "-" give None)
Board_from_fen(fen) ==
    [history |-> <<>>,
     pieces |-> Mailbox(FenBoard(fen[1], 1, 0, 7, EmptyBoard, FALSE).value.value),
     active_color |-> IF Field(fen, 2, <<"w">>) = <<"b">> THEN Black ELSE White,
     castling |-> 0,
     en_passant |-> IF algebraic_to_index(Field(fen, 4, <<"-">>)).ok
                    THEN algebraic_to_index(Field(fen, 4, <<"-">>)).value % 256
                    ELSE 0,
     half_moves |-> parse(Field(fen, 5, <<"0">>), U16_MAX).value,
     full_moves |-> parse(Field(fen, 6, <<"1">>), U16_MAX).value]

\* the record move_piece pushes on the history
MoveHistory(b, m) ==
    [piece_taken |-> b.pieces[m.end_index],
     starting_location |-> m.start_index,
     ending_location |-> m.end_index,
     castling |-> b.castling,
     half_moves |-> b.half_moves % 256,
     en_passant |-> b.en_passant]
\* the pawn an en-passant capture takes: move_piece clears the square behind
\* end_index whenever a pawn moves onto the en-passant square, whatever the flag
ClearBehind(b, m, color) ==
    IF b.en_passant # 0 /\ b.en_passant = m.end_index
    THEN [b.pieces EXCEPT ![IF color = White THEN m.end_index - 8 ELSE m.end_index + 8] = 12]
    ELSE b.pieces
DoublePushSquare(m) ==
    IF \/ m.start_index \div 8 = 1 /\ m.end_index \div 8 = 3
       \/ m.start_index \div 8 = 6 /\ m.end_index \div 8 = 4
    THEN ((m.start_index + m.end_index) % 256) \div 2
    ELSE 0
PromotedTo(m, color, piece) ==
    CASE m.flag = "PromoteQueen" -> color * 6 + Queen
      [] m.flag = "PromoteKnight" -> color * 6 + Knight
      [] m.flag = "PromoteBishop" -> color * 6 + Bishop
      [] m.flag = "PromoteRook" -> color * 6 + Rook
      [] OTHER -> piece
\* the squares after the move: new_piece on end_index, None on start_index
PlacePiece(pieces, m, new_piece) ==
    [pieces EXCEPT ![m.end_index] = new_piece, ![m.start_index] = 12]
move_piece(b, m) ==
    LET moved == b.pieces[m.start_index]
        is_pawn == moved # 12 /\ moved % 6 = Pawn
    IN  [history |-> Append(b.history, MoveHistory(b, m)),
         pieces |-> IF is_pawn
                    THEN PlacePiece(ClearBehind(b, m, moved \div 6), m,
                                    PromotedTo(m, moved \div 6, moved))
                    ELSE PlacePiece(b.pieces, m, moved),
         active_color |-> IF b.active_color = White THEN Black ELSE White,
         castling |-> b.castling,
         en_passant |-> IF is_pawn THEN DoublePushSquare(m) ELSE 0,
         half_moves |-> IF is_pawn \/ b.pieces[m.end_index] # 12 THEN 0 ELSE b.half_moves + 1,
         full_moves |-> IF b.active_color = Black THEN b.full_moves + 1 ELSE b.full_moves]

\* the match on m.flag at the end of revert_last_move; opponent_color is the
\* side to move before the revert
RevertFlag(pieces, m, past_state, opponent_color) ==
    CASE m.flag \in {"PromoteRook", "PromoteBishop", "PromoteKnight", "PromoteQueen"} ->
           IF pieces[past_state.starting_location] = 12 THEN pieces
           ELSE [pieces EXCEPT ![past_state.starting_location]
                                   = (pieces[past_state.starting_location] \div 6) * 6 + Pawn]
      [] m.flag = "EnPassantCapture" ->
           IF past_state.en_passant # 0
           THEN [pieces EXCEPT ![past_state.en_passant + DIRECTION_OFFSETS[opponent_color + 1]]
                                   = opponent_color * 6 + Pawn]
           ELSE pieces
      [] m.flag = "CastlingQueen" ->
           [pieces EXCEPT ![m.start_index - 4] = pieces[m.start_index - 1],
                          ![m.start_index - 1] = 12]
      [] m.flag = "CastlingKnight" ->
           [pieces EXCEPT ![m.start_index + 3] = pieces[m.start_index + 1],
                          ![m.start_index + 1] = 12]
      [] OTHER -> pieces
\* the piece goes back to starting_location and piece_taken to ending_location
PutBack(pieces, past_state) ==
    [[pieces EXCEPT ![past_state.starting_location] = pieces[past_state.ending_location]]
        EXCEPT ![past_state.ending_location] = past_state.piece_taken]
revert_last_move(b, m) ==
    IF b.history = <<>> THEN b
    ELSE LET past_state == b.history[Len(b.history)]
         IN  [history |-> SubSeq(b.history, 1, Len(b.history) - 1),
              pieces |-> RevertFlag(PutBack(b.pieces, past_state), m, past_state,
                                    b.active_color),
              active_color |-> IF b.active_color = White THEN Black ELSE White,
              castling |-> past_state.castling,
              en_passant |-> past_state.en_passant,
              half_moves |-> past_state.half_moves,
              full_moves |-> IF b.active_color = White THEN b.full_moves - 1
                             ELSE b.full_moves]

\* generate_legal_moves: each pseudo-legal move is made, answered and
\* reverted on the one board; the value is the list of the moves kept and
\* the board the caller is left with
KingLocation(b, color) ==
    IF \E location \in 0 .. 63 : b.pieces[location] = color * 6 + King
    THEN Min({location \in 0 .. 63 : b.pieces[location] = color * 6 + King})
    ELSE 64
TakesKing(responses, king_location) ==
    \E i \in 1 .. Len(responses) : responses[i].end_index = king_location
\* one turn of the loop 'verify_loop: the move is made, answered and reverted
VerifyStep(b, m, made, legal_moves) ==
    [moves |-> IF TakesKing(generate_pseudo_legal_moves(made),
                            KingLocation(made, b.active_color))
               THEN legal_moves
               ELSE Append(legal_moves, m),
     board |-> revert_last_move(made, m)]
\* the turns first .. last of the loop, in order, from the list and the board
\* acc that the turns before them left (the range is halved to keep the
\* evaluation shallow)
RECURSIVE VerifyLoop(_, _, _, _)
VerifyLoop(acc, moves, first, last) ==
    CASE first > last -> acc
      [] first = last ->
           VerifyStep(acc.board, moves[first], move_piece(acc.board, moves[first]),
                      acc.moves)
      [] OTHER ->
           CHOOSE rest \in {VerifyLoop(half, moves, (first + last) \div 2 + 1, last) :
                               half \in {VerifyLoop(acc, moves, first,
                                                    (first + last) \div 2)}} : TRUE
generate_legal_moves(b) ==
    VerifyLoop([moves |-> <<>>, board |-> b], generate_pseudo_legal_moves(b), 1,
               Len(generate_pseudo_legal_moves(b)))

(***************************************************************************)
(* The state machine.  board is the BitBoardState the program holds;       *)
(* before and last_move remember the position and the move of the last     *)
(* step, ply counts the steps; result is what the last perft or best_move  *)
(* call gave.                                                              *)
(***************************************************************************)
\* input is the text handed to a parser (a FEN, a square name), as a sequence of
\* one-character strings or of fields; workers is the state of the parallel
\* workers of evaluate_moves, one per root move
VARIABLES board, before, last_move, ply, result, input, workers
vars == <<board, before, last_move, ply, result, input, workers>>

\* Bounds of the exploration
MaxPly == 5
LowFile == 4
HighFile == 5
MaxPosPly == 1
MaxDepth == 3
MaxSearchDepth == 2
MaxTableBits == 2
MaxMirrors == 2
MaxTextLen == 3
MaxRootMoves == 6
\* the most moves kept on a mailbox Board before a move is made and reverted
MaxBoardPly == 1

NullMove == BitBoardMove(0, 0, 0)
NoResult == [op |-> "none"]
NoInput == <<>>
NoWorkers == [status |-> "idle", tasks |-> <<>>]

Init ==
    /\ board = Default
    /\ before = Default
    /\ last_move = NullMove
    /\ ply = 0
    /\ result = NoResult
    /\ input = NoInput
    /\ workers = NoWorkers

InitPos ==
    /\ board \in RootPositions
    /\ before = board
    /\ last_move = NullMove
    /\ ply = 0
    /\ result = NoResult
    /\ input = NoInput
    /\ workers = NoWorkers

\* one generated move played the way perft, the search and the UCI loop play
\* it: apply_move, then change_side
Played(m) ==
    /\ board' = change_side(apply_move(board, m))
    /\ before' = board
    /\ last_move' = m
    /\ ply' = ply + 1
    /\ UNCHANGED <<result, input, workers>>

InWindow(m) ==
    /\ FileOf(get_from(m)) \in LowFile .. HighFile
    /\ FileOf(get_to(m)) \in LowFile .. HighFile

\* a game from the start position, kept to the moves on the files of the window
Play ==
    /\ ply < MaxPly
    /\ \E moves \in {generate_moves(board)} :
          \E i \in 1 .. Len(moves) : InWindow(moves[i]) /\ Played(moves[i])

\* any generated move, from any of the root positions
PlayAny ==
    /\ ply < MaxPosPly
    /\ result = NoResult
    /\ workers = NoWorkers
    /\ \E moves \in {generate_moves(board)} :
          \E i \in 1 .. Len(moves) : Played(moves[i])

\* a perft test: perft(&board, depth)
RunPerft ==
    /\ result = NoResult
    /\ \E depth \in 0 .. MaxDepth :
          /\ depth + ply <= MaxDepth
          /\ result' = [op |-> "perft", depth |-> depth, nodes |-> perft(board, depth)]
    /\ UNCHANGED <<board, before, last_move, ply, input, workers>>

\* SearchDriver::new(size).best_move(&board, depth)
BestMove ==
    /\ result = NoResult
    /\ \E size \in 0 .. MaxTableBits, depth \in 0 .. MaxSearchDepth :
          \E outcome \in best_move(SearchDriver_new(size), board, depth) :
              result' = [op |-> "best_move", size |-> size, depth |-> depth,
                         outcome |-> outcome]
    /\ UNCHANGED <<board, before, last_move, ply, input, workers>>

\* White is checkmated on the back rank
BackRankMateFen ==
  <<<<"7", "k", "/", "8", "/", "8", "/", "8", "/", "8", "/", "8", "/", "5", "P", "P", "P", "/", "1", "r", "4", "K", "1">>,
    <<"w">>,
    <<"-">>,
    <<"-">>,
    <<"0">>,
    <<"1">>>>
\* Black is stalemated in the corner
StalemateFen ==
  <<<<"7", "k", "/", "5", "Q", "2", "/", "6", "K", "1", "/", "8", "/", "8", "/", "8", "/", "8", "/", "8">>,
    <<"b">>,
    <<"-">>,
    <<"-">>,
    <<"0">>,
    <<"1">>>>
NodePositions ==
    RootPositions \cup {from_fen(BackRankMateFen, FALSE).value.state,
                        from_fen(StalemateFen, FALSE).value.state}
InitNode ==
    /\ board \in NodePositions
    /\ before = board
    /\ last_move = NullMove
    /\ ply = 0
    /\ result = NoResult
    /\ input = NoInput
    /\ workers = NoWorkers
\* the windows an internal node is searched with
AlphaBounds == {-100, 0}
BetaBounds == {50, 100}
\* SearchDriver::new(size).alpha_beta_max(&board, board.active_color, alpha,
\* beta, depth) and the same call of alpha_beta_min, at depth > 0
SearchNode ==
    /\ result = NoResult
    /\ \E size \in 0 .. MaxTableBits, depth \in 1 .. MaxSearchDepth,
          alpha \in AlphaBounds, beta \in BetaBounds, maximize \in BOOLEAN :
          result' = [op |-> "alpha_beta", maximize |-> maximize, depth |-> depth,
                     alpha |-> alpha, beta |-> beta,
                     outcome |-> IF maximize
                                 THEN alpha_beta_max(SearchDriver_new(size), board,
                                                     board.active_color, alpha, beta, depth)
                                 ELSE alpha_beta_min(SearchDriver_new(size), board,
                                                     board.active_color, alpha, beta, depth)]
    /\ UNCHANGED <<board, before, last_move, ply, input, workers>>

\* i64::MIN and i64::MAX, narrowed to 32 bits; no evaluation comes near either
I64_MAX == 2147483647
I64_MIN == 0 - I64_MAX
\* SearchDriver::new(size).alpha_beta_max(&board, board.active_color,
\* i64::MIN, i64::MAX, depth) and the same call of alpha_beta_min: a search
\* with the full window, at any depth
SearchRoot ==
    /\ result = NoResult
    /\ \E size \in 0 .. MaxTableBits, depth \in 0 .. MaxSearchDepth, maximize \in BOOLEAN :
          result' = [op |-> "full_window", maximize |-> maximize, size |-> size,
                     depth |-> depth,
                     outcome |-> IF maximize
                                 THEN alpha_beta_max(SearchDriver_new(size), board,
                                                     board.active_color, I64_MIN, I64_MAX, depth)
                                 ELSE alpha_beta_min(SearchDriver_new(size), board,
                                                     board.active_color, I64_MIN, I64_MAX, depth)]
    /\ UNCHANGED <<board, before, last_move, ply, input, workers>>

\* evaluate_bitboard(&board, color), in a build with or without overflow checks
Evaluate ==
    /\ result = NoResult
    /\ \E color \in {White, Black}, overflow_checks \in BOOLEAN :
          result' = [op |-> "evaluate_bitboard", color |-> color,
                     overflow_checks |-> overflow_checks,
                     outcome |-> evaluate_bitboard(board, color, overflow_checks)]
    /\ UNCHANGED <<board, before, last_move, ply, input, workers>>

\* board.mirror_board(), up to MaxMirrors times in a row on the position at hand;
\* result remembers the position the mirroring started from
MirrorBoard ==
    /\ result.op \in {"none", "mirror_board"}
    /\ result.op = "mirror_board" => result.times < MaxMirrors
    /\ board' = mirror_board(board)
    /\ result' = [op |-> "mirror_board",
                  times |-> IF result.op = "none" THEN 1 ELSE result.times + 1,
                  origin |-> IF result.op = "none" THEN board ELSE result.origin]
    /\ UNCHANGED <<before, last_move, ply, input, workers>>

(***************************************************************************)
(* evaluate_moves as it runs: moves.par_iter().map(closure).collect().     *)
(* Each root move is a task of the thread pool; a task is at "start",      *)
(* "cloned" (b_c made and the move applied), "done" or "panicked".  A      *)
(* location is <<owner, name>>: owner 0 is state of evaluate_moves that    *)
(* the closure captures, owner i the locals of task i.                     *)
(***************************************************************************)
\* what the closure of a task can write: its own b_c and, through the
\* captured self, the driver's transposition table
WorkerCanWrite(i) == {<<i, "b_c">>, <<0, "self.transposition_table">>}
NoClone == <<>>
NoValue == Aborted("not run")
NewTask(m) ==
    [m |-> m, pc |-> "start", b_c |-> NoClone, value |-> NoValue, reads |-> {}, writes |-> {}]
Tasks == DOMAIN workers.tasks
\* b = bitboard.clone(); moves = generate_moves(&mut b); the pool takes the moves
StartEvaluate ==
    /\ result = NoResult
    /\ workers = NoWorkers
    /\ \E moves \in {generate_moves(board)} :
          /\ Len(moves) <= MaxRootMoves
          /\ \E size \in 0 .. MaxTableBits, depth \in 0 .. MaxSearchDepth :
                workers' = [status |-> "running", size |-> size, depth |-> depth,
                            driver |-> SearchDriver_new(size),
                            tasks |-> [i \in 1 .. Len(moves) |-> NewTask(moves[i])]]
    /\ UNCHANGED <<board, before, last_move, ply, result, input>>
\* let mut b_c = b.clone(); b_c.apply_move(&m);
WorkerClone ==
    /\ workers.status = "running"
    /\ \E i \in Tasks :
          /\ workers.tasks[i].pc = "start"
          /\ workers' = [workers EXCEPT
                            !.tasks[i].pc = "cloned",
                            !.tasks[i].b_c = apply_move(board, workers.tasks[i].m),
                            !.tasks[i].reads = @ \cup {<<0, "b">>},
                            !.tasks[i].writes = @ \cup {<<i, "b_c">>}]
    /\ UNCHANGED <<board, before, last_move, ply, result, input>>
\* let value = self.alpha_beta_max(&b_c, b.active_color, i64::MIN, i64::MAX, depth);
\* the call reads the table's length before anything else and aborts on it
SearchOutcome(task) ==
    alpha_beta_max(workers.driver, task.b_c, board.active_color, "i64::MIN", "i64::MAX",
                   workers.depth)
WorkerSearch ==
    /\ workers.status = "running"
    /\ \E i \in Tasks :
          /\ workers.tasks[i].pc = "cloned"
          /\ workers' = [workers EXCEPT
                            !.tasks[i].pc = IF SearchOutcome(workers.tasks[i]).completed
                                            THEN "done" ELSE "panicked",
                            !.tasks[i].value = SearchOutcome(workers.tasks[i]),
                            !.tasks[i].reads = @ \cup {<<i, "b_c">>, <<0, "b">>,
                                                       <<0, "self.transposition_table">>}]
    /\ UNCHANGED <<board, before, last_move, ply, result, input>>
\* collect() and best_move's moves.pop().unwrap().m: the pool is joined when
\* every task has ended, or when a task has panicked and none is running (the
\* tasks not yet started are dropped); a panic of a task is the panic of the call
Joined ==
    \/ \A i \in Tasks : workers.tasks[i].pc \in {"done", "panicked"}
    \/ /\ \E i \in Tasks : workers.tasks[i].pc = "panicked"
       /\ \A i \in Tasks : workers.tasks[i].pc # "cloned"
Panicked == {i \in Tasks : workers.tasks[i].pc = "panicked"}
CollectedHeap ==
    IF Panicked # {}
    THEN workers.tasks[CHOOSE i \in Panicked : TRUE].value
    ELSE Returned({[value |-> workers.tasks[i].value.value, m |-> workers.tasks[i].m] :
                      i \in Tasks})
Collect ==
    /\ workers.status = "running"
    /\ Joined
    /\ \E outcome \in PopUnwrap(CollectedHeap) :
          result' = [op |-> "par_best_move", size |-> workers.size, depth |-> workers.depth,
                     outcome |-> outcome]
    /\ workers' = [workers EXCEPT !.status = "joined"]
    /\ UNCHANGED <<board, before, last_move, ply, input>>

\* the moves compared with one another: every flag on a few squares
CompareSquares == {4, 52, 60}
CompareMoves ==
    {BitBoardMove(from, to, flags) : from \in CompareSquares, to \in CompareSquares,
                                     flags \in 0 .. 15}
InitCompare ==
    /\ board = Default
    /\ before = Default
    /\ last_move \in CompareMoves
    /\ ply = 0
    /\ result = NoResult
    /\ input = NoInput
    /\ workers = NoWorkers
\* last_move == other
Compare ==
    /\ \E other \in CompareMoves :
          result' = [op |-> "eq", self |-> last_move, other |-> other,
                     equal |-> eq(last_move, other)]
    /\ UNCHANGED <<board, before, last_move, ply, input, workers>>

\* every value of the 16 bits of a move
AllMoves == 0 .. 65535
InitMove ==
    /\ board = Default
    /\ before = Default
    /\ last_move \in AllMoves
    /\ ply = 0
    /\ result = NoResult
    /\ input = NoInput
    /\ workers = NoWorkers
\* BitBoardMove::from_long_algebraic(m.to_long_algebraic().unwrap().as_bytes())
LongAlgebraic ==
    /\ result = NoResult
    /\ \E text \in {to_long_algebraic(last_move)} :
          /\ input' = text.value
          /\ result' = [op |-> "long_algebraic", move |-> last_move,
                        parsed |-> from_long_algebraic(text.value)]
    /\ UNCHANGED <<board, before, last_move, ply, workers>>

\* the texts handed to algebraic_to_index: every text of up to MaxTextLen
\* characters over letters and digits at and around the ends of the ranges
SquareAlphabet == {"a", "h", "i", "A", "H", "I", "z", "0", "1", "8", "9", "-", "@", ":"}
SquareTexts == UNION {[1 .. n -> SquareAlphabet] : n \in 0 .. MaxTextLen}
InitSquare ==
    /\ board = Default
    /\ before = Default
    /\ last_move = NullMove
    /\ ply = 0
    /\ result = NoResult
    /\ input \in SquareTexts
    /\ workers = NoWorkers
\* algebraic_to_index(input)
ParseSquare ==
    /\ result' = [op |-> "algebraic_to_index", text |-> input,
                  value |-> algebraic_to_index(input)]
    /\ UNCHANGED <<board, before, last_move, ply, input, workers>>
\* algebraic_to_index(&index_to_algebraic(index)), when no text was given
NameSquare ==
    /\ input = NoInput
    /\ \E index \in 0 .. 63 :
          /\ input' = index_to_algebraic(index)
          /\ result' = [op |-> "index_to_algebraic", index |-> index,
                        value |-> algebraic_to_index(index_to_algebraic(index))]
    /\ UNCHANGED <<board, before, last_move, ply, workers>>

\* the FEN texts handed to from_fen: a board field, then the other fields from
\* small sets, the board field alone, and the empty text
\* the start position after e2e4
AfterE4Board ==
  <<"r", "n", "b", "q", "k", "b", "n", "r", "/", "p", "p", "p", "p", "p", "p", "p", "p", "/", "8", "/", "8", "/", "4", "P", "3", "/", "8", "/", "P", "P", "P", "P", "1", "P", "P", "P", "/", "R", "N", "B", "Q", "K", "B", "N", "R">>
\* two kings on their home squares
BareKingsBoard ==
  <<"4", "k", "3", "/", "8", "/", "8", "/", "8", "/", "8", "/", "8", "/", "8", "/", "4", "K", "3">>
\* no white king
NoWhiteKingBoard ==
  <<"4", "k", "3", "/", "8", "/", "8", "/", "8", "/", "8", "/", "8", "/", "8", "/", "8">>
\* two white kings
TwoWhiteKingsBoard ==
  <<"4", "k", "3", "/", "8", "/", "8", "/", "8", "/", "8", "/", "8", "/", "8", "/", "3", "K", "K", "3">>
\* a white pawn on a1
PawnOnFirstRankBoard ==
  <<"4", "k", "3", "/", "8", "/", "8", "/", "8", "/", "8", "/", "8", "/", "8", "/", "P", "3", "K", "3">>
\* a white pawn on a8
PawnOnLastRankBoard ==
  <<"P", "3", "k", "3", "/", "8", "/", "8", "/", "8", "/", "8", "/", "8", "/", "8", "/", "4", "K", "3">>
\* nine ranks, a queen on the ninth
NineRanksBoard ==
  <<"4", "k", "3", "/", "8", "/", "8", "/", "8", "/", "8", "/", "8", "/", "8", "/", "4", "K", "3", "/", "Q", "7">>
\* a rank of nine squares
NineSquaresBoard ==
  <<"4", "k", "4", "/", "8", "/", "8", "/", "8", "/", "8", "/", "8", "/", "8", "/", "4", "K", "3">>
\* a king on the ninth file of the top rank
NinthFileBoard ==
  <<"8", "k", "/", "8", "/", "8", "/", "8", "/", "8", "/", "8", "/", "8", "/", "4", "K", "3">>
\* a character that is no piece
UnknownCharacterBoard ==
  <<"4", "k", "3", "/", "8", "/", "8", "/", "8", "/", "8", "/", "8", "/", "8", "/", "4", "K", "2", "x">>
BoardFields ==
    {StartFen[1], AfterE4Board, BareKingsBoard, NoWhiteKingBoard, TwoWhiteKingsBoard,
     PawnOnFirstRankBoard, PawnOnLastRankBoard, NineRanksBoard, NineSquaresBoard,
     NinthFileBoard, UnknownCharacterBoard}
ColorFields == {<<"w">>, <<"b">>}
CastlingFields == {<<"-">>, <<"K", "Q", "k", "q">>}
EnPassantFields == {<<"-">>, <<"e", "3">>, <<"c", "5">>}
HalfMoveFields == {<<"0">>, <<"+", "7">>, <<"x">>, <<"2", "5", "6">>}
FullMoveFields == {<<"1">>, <<"1", "a">>, <<"6", "5", "5", "3", "6">>}
FenTexts ==
    {<<>>} \cup {<<b>> : b \in BoardFields}
    \cup {<<b, c, k, e, h, f>> : b \in BoardFields, c \in ColorFields, k \in CastlingFields,
                                e \in EnPassantFields, h \in HalfMoveFields,
                                f \in FullMoveFields}
InitFen ==
    /\ board = Default
    /\ before = Default
    /\ last_move = NullMove
    /\ ply = 0
    /\ result = NoResult
    /\ input \in FenTexts
    /\ workers = NoWorkers
\* BitBoardState::from_fen(input), in a build with or without overflow checks
ParseFen ==
    /\ result = NoResult
    /\ \E overflow_checks \in BOOLEAN :
          result' = [op |-> "from_fen", overflow_checks |-> overflow_checks,
                     outcome |-> from_fen(input, overflow_checks)]
    /\ UNCHANGED <<board, before, last_move, ply, input, workers>>

\* the slots of the three lookup tables
TableSlots ==
    {[table |-> "RAY_ATTACKS", direction |-> d, index |-> i] : d \in 0 .. 7, i \in 0 .. 64}
    \cup {[table |-> t, direction |-> 0, index |-> i] :
            t \in {"KING_ATTACKS", "KNIGHT_ATTACKS"}, i \in 0 .. 63}
InitTables ==
    /\ board = Default
    /\ before = Default
    /\ last_move = NullMove
    /\ ply = 0
    /\ result = NoResult
    /\ input \in TableSlots
    /\ workers = NoWorkers
\* RAY_ATTACKS[direction][index]
ReadRayAttacks ==
    /\ result = NoResult
    /\ input.table = "RAY_ATTACKS"
    /\ result' = [op |-> "lookup", value |-> RAY_ATTACKS[input.direction][input.index]]
    /\ UNCHANGED <<board, before, last_move, ply, input, workers>>
\* KING_ATTACKS[index]
ReadKingAttacks ==
    /\ result = NoResult
    /\ input.table = "KING_ATTACKS"
    /\ result' = [op |-> "lookup", value |-> KING_ATTACKS[input.index]]
    /\ UNCHANGED <<board, before, last_move, ply, input, workers>>
\* KNIGHT_ATTACKS[index]
ReadKnightAttacks ==
    /\ result = NoResult
    /\ input.table = "KNIGHT_ATTACKS"
    /\ result' = [op |-> "lookup", value |-> KNIGHT_ATTACKS[input.index]]
    /\ UNCHANGED <<board, before, last_move, ply, input, workers>>

\* fn board_fen (mod test in board.rs): the position after 1. e4
AfterE4Fen == <<AfterE4Board, <<"b">>, <<"K", "Q", "k", "q">>, <<"e", "3">>, <<"0">>, <<"1">>>>
\* after 1. d4 c5 2. c4, with the en-passant field naming the square of the
\* pawn that was pushed, as the last text of board_fen does
PushedPawnFen ==
  <<<<"r", "n", "b", "q", "k", "b", "n", "r", "/", "p", "p", "1", "p", "p", "p", "p", "p", "/", "8", "/", "2", "p", "5", "/", "2", "P", "P", "4", "/", "8", "/", "P", "P", "2", "P", "P", "P", "P", "/", "R", "N", "B", "Q", "K", "B", "N", "R">>,
    <<"w">>,
    <<"K", "Q", "k", "q">>,
    <<"c", "5">>,
    <<"0">>,
    <<"2">>>>
BoardFens ==
    {StartFen, AfterE4Fen, PushedPawnFen, EnPassantCheckFen, PawnOnSeventhFen, Position5Fen}
InitBoard ==
    /\ board = Default
    /\ before = Default
    /\ last_move = NullMove
    /\ ply = 0
    /\ result = NoResult
    /\ input \in {Board_from_fen(fen) : fen \in BoardFens}
    /\ workers = NoWorkers
\* board.move_piece(&m) for a pseudo-legal move m, kept
PlayMove ==
    /\ result = NoResult
    /\ ply < MaxBoardPly
    /\ \E moves \in {generate_pseudo_legal_moves(input)} :
          \E i \in 1 .. Len(moves) : input' = move_piece(input, moves[i])
    /\ ply' = ply + 1
    /\ UNCHANGED <<board, before, last_move, result, workers>>
\* board.move_piece(&m) for a pseudo-legal move m that is to be taken back
MovePiece ==
    /\ result = NoResult
    /\ \E moves \in {generate_pseudo_legal_moves(input)} :
          \E i \in 1 .. Len(moves) :
              /\ input' = move_piece(input, moves[i])
              /\ result' = [op |-> "move_piece", m |-> moves[i], origin |-> input]
    /\ UNCHANGED <<board, before, last_move, ply, workers>>
\* board.revert_last_move(&m) after move_piece(&m), and on an empty history
RevertLastMove ==
    /\ \/ /\ result.op = "move_piece"
          /\ input' = revert_last_move(input, result.m)
          /\ result' = [op |-> "revert_last_move", m |-> result.m, origin |-> result.origin]
       \/ /\ result = NoResult
          /\ input.history = <<>>
          /\ \E moves \in {generate_pseudo_legal_moves(input)} :
                \E i \in 1 .. Len(moves) :
                    /\ input' = revert_last_move(input, moves[i])
                    /\ result' = [op |-> "revert_last_move", m |-> moves[i], origin |-> input]
    /\ UNCHANGED <<board, before, last_move, ply, workers>>
\* generate_legal_moves(&mut board)
GenerateLegalMoves ==
    /\ result = NoResult
    /\ \E outcome \in {generate_legal_moves(input)} :
          /\ input' = outcome.board
          /\ result' = [op |-> "generate_legal_moves", moves |-> outcome.moves,
                        origin |-> input]
    /\ UNCHANGED <<board, before, last_move, ply, workers>>

Next == Play
Spec == Init /\ [][Next]_vars

NextCompare == Compare
SpecCompare == InitCompare /\ [][NextCompare]_vars

NextMove == LongAlgebraic
SpecMove == InitMove /\ [][NextMove]_vars

NextSquare == ParseSquare \/ NameSquare
SpecSquare == InitSquare /\ [][NextSquare]_vars

NextEval == PlayAny \/ Evaluate
SpecEval == InitPos /\ [][NextEval]_vars

NextFen == ParseFen

NextNode == PlayAny \/ SearchNode
SpecNode == InitNode /\ [][NextNode]_vars

NextWorkers == PlayAny \/ StartEvaluate \/ WorkerClone \/ WorkerSearch \/ Collect
SpecWorkers == InitPos /\ [][NextWorkers]_vars
SpecFen == InitFen /\ [][NextFen]_vars

NextMirror == PlayAny \/ MirrorBoard
SpecMirror == InitPos /\ [][NextMirror]_vars

NextRoot == PlayAny \/ SearchRoot
SpecRoot == InitNode /\ [][NextRoot]_vars

NextTables == ReadRayAttacks \/ ReadKingAttacks \/ ReadKnightAttacks
SpecTables == InitTables /\ [][NextTables]_vars

NextBoard == PlayMove \/ MovePiece \/ RevertLastMove \/ GenerateLegalMoves
SpecBoard == InitBoard /\ [][NextBoard]_vars

NextPos == PlayAny
SpecPos == InitPos /\ [][NextPos]_vars

NextPerft == PlayAny \/ RunPerft
SpecPerft == InitPos /\ [][NextPerft]_vars

NextSearch == PlayAny \/ BestMove
SpecSearch == InitPos /\ [][NextSearch]_vars


(***************************************************************************)
(* The properties.  The positions and moves are read with the rules of     *)
(* chess above, not with the generator's own bitboards.                    *)
(***************************************************************************)
\* C1: on a position that satisfies the five invariants of the data model,
\* generate_moves returns, as a set of (origin, destination, promotion kind),
\* exactly the legal moves of the side to move.
C1_GeneratedMovesAreTheLegalMoves ==
    ValidPosition(board) => GeneratedSet(board) = LegalMoves(board)

\* C2: after a generated move has been applied, the king of the side that
\* moved is not attacked, en-passant captures and castling included.
C2_NoSelfCheck ==
    (ply > 0 /\ ValidPosition(before))
        => ~InCheck(Mailbox(board.bitboard), before.active_color)

\* the reference counts of the six test positions at depths 0, 1, 2 and 3
KnownPerft ==
    <<<<1, 20, 400, 8902>>,
      <<1, 48, 2039, 97862>>,
      <<1, 14, 191, 2812>>,
      <<1, 6, 264, 9467>>,
      <<1, 44, 1486, 62379>>,
      <<1, 46, 2079, 89890>>>>

\* C3: perft of each of the six test positions equals the reference count at
\* depths 1, 2 and 3, and is 1 at depth 0.
C3_PerftMatchesReference ==
    \A i \in 1 .. 6 :
        (ply = 0 /\ board = TestPosition(i) /\ result.op = "perft")
            => result.nodes = KnownPerft[i][result.depth + 1]

\* C4: on a valid position best_move completes without aborting and returns
\* a member of generate_moves (a "no move" value when there is no move).
C4_BestMoveCompletes ==
    (result.op = "best_move" /\ ValidPosition(board))
        => /\ result.outcome.completed
           /\ generate_moves(board) # <<>>
                => \E i \in 1 .. Len(generate_moves(board)) :
                       generate_moves(board)[i] = result.outcome.value

\* C5: in every position reached from the start position by generated moves
\* the twelve bitboards are pairwise disjoint and each side has one king.
C5_DisjointBoardsOneKingEach == PairwiseDisjoint(board) /\ OneKingEach(board)

\* the move just played took a pawn two ranks along its file
LastMoveWasDoublePush ==
    /\ ply > 0
    /\ Mailbox(before.bitboard)[get_from(last_move)] \in {Pawn, 6 + Pawn}
    /\ Abs(get_to(last_move) - get_from(last_move)) = 16

\* C6: in every position reached from the start position the en-passant field
\* is 64, unless the move just played was a pawn double push, by White or by
\* Black, and then it is the square midway between origin and destination.
C6_EnPassantIsTheSquarePassedOver ==
    ply > 0 =>
        board.en_passant = IF LastMoveWasDoublePush
                           THEN (get_from(last_move) + get_to(last_move)) \div 2
                           ELSE 64

\* C7: in every position reached from the start position a set king flag
\* means that king is on its home square, a set rook flag that a rook of the
\* side is on that home corner.
C7_CastlingFlagsMeanHomeSquares == CastlingHome(board)

\* C8: when two or more pieces give check, wherever they stand, every
\* generated move starts on the king's square.
C8_DoubleCheckKingMovesOnly ==
    Cardinality(Checkers(Mailbox(board.bitboard), board.active_color)) >= 2
        => \A i \in 1 .. Len(generate_moves(board)) :
               get_from(generate_moves(board)[i])
                   \in KingSquares(Mailbox(board.bitboard), board.active_color)

\* a king of the side to move goes two files along its rank
KingMovesTwoFiles(s, b, m) ==
    /\ IsPiece(b, get_from(m), s.active_color, King)
    /\ RankOf(get_from(m)) = RankOf(get_to(m))
    /\ Abs(FileOf(get_to(m)) - FileOf(get_from(m))) = 2

\* the three conditions of a castle from from to to: (a) the king flag and
\* the flag of the rook of that wing, (b) nothing between the king and that
\* rook's corner, (c) origin, square passed over and destination not attacked
CastlingConditions(s, b, from, to) ==
    LET color == s.active_color
        corner == RankOf(from) * 8 + (IF to > from THEN 7 ELSE 0)
        king_flag == IF color = White THEN WHITE_KING ELSE BLACK_KING
        rook_flag == IF color = White
                     THEN (IF to > from THEN WHITE_H_ROOK ELSE WHITE_A_ROOK)
                     ELSE (IF to > from THEN BLACK_H_ROOK ELSE BLACK_A_ROOK)
    IN  /\ king_flag \in s.castling /\ rook_flag \in s.castling
        /\ \A x \in Between(from, corner) : b[x] = 12
        /\ \A x \in {from, (from + to) \div 2, to} : ~Attacked(b, x, Opposite(color))

\* C9: a castling move (the king going two files) is generated only with the
\* right of that castle, an empty path to the rook, and origin, pass-over and
\* destination squares not attacked.
C9_CastlingOnlyWhenAllowed ==
    \A i \in 1 .. Len(generate_moves(board)) :
        KingMovesTwoFiles(board, Mailbox(board.bitboard), generate_moves(board)[i])
            => CastlingConditions(board, Mailbox(board.bitboard),
                                  get_from(generate_moves(board)[i]),
                                  get_to(generate_moves(board)[i]))

\* the position seen from the other side: board flipped vertically, colours,
\* castling flags, en-passant square and side to move swapped
FlipSquare(sq) == (7 - RankOf(sq)) * 8 + FileOf(sq)
MirrorPosition(s) ==
    [s EXCEPT !.bitboard = [i \in 0 .. 11 |-> {FlipSquare(sq) : sq \in s.bitboard[(i + 6) % 12]}],
              !.castling = {IF f < 8 THEN f * 8 ELSE f \div 8 : f \in s.castling},
              !.en_passant = IF s.en_passant >= 64 THEN 64 ELSE FlipSquare(s.en_passant),
              !.active_color = Opposite(s.active_color)]
MoveSet(s) == {generate_moves(s)[i] : i \in 1 .. Len(generate_moves(s))}
FlipMove(m) == BitBoardMove(FlipSquare(get_from(m)), FlipSquare(get_to(m)), get_flags(m))

\* C10: the moves generated for the mirrored position are the moves generated
\* for the position with origin and destination flipped and the flags kept.
C10_MirrorSymmetry ==
    MoveSet(MirrorPosition(board)) = {FlipMove(m) : m \in MoveSet(board)}


\* one application of mirror_board to origin gives flipped: every bitboard
\* flipped vertically and handed to the other colour, the castling flags of the
\* two sides exchanged
MirroredOnce(origin, flipped) ==
    /\ \A color \in {White, Black} : \A piece \in 0 .. 5 :
           get_set(flipped.bitboard, color, piece)
               = {FlipSquare(sq) : sq \in get_set(origin.bitboard, Opposite(color), piece)}
    /\ (WHITE_KING \in flipped.castling) = (BLACK_KING \in origin.castling)
    /\ (WHITE_A_ROOK \in flipped.castling) = (BLACK_A_ROOK \in origin.castling)
    /\ (WHITE_H_ROOK \in flipped.castling) = (BLACK_H_ROOK \in origin.castling)
    /\ (BLACK_KING \in flipped.castling) = (WHITE_KING \in origin.castling)
    /\ (BLACK_A_ROOK \in flipped.castling) = (WHITE_A_ROOK \in origin.castling)
    /\ (BLACK_H_ROOK \in flipped.castling) = (WHITE_H_ROOK \in origin.castling)
SameBoardFlagsAndEnPassant(a, b) ==
    a.bitboard = b.bitboard /\ a.castling = b.castling /\ a.en_passant = b.en_passant

\* C11: on a position that satisfies the invariants of the data model, one
\* mirror_board flips the bitboards and exchanges colours and castling flags,
\* and two in a row restore bitboards, castling flags and en-passant field.
C11_MirrorBoardIsAnInvolution ==
    (result.op = "mirror_board" /\ ValidPosition(result.origin))
        => /\ result.times = 1 => MirroredOnce(result.origin, board)
           /\ result.times = 2 => SameBoardFlagsAndEnPassant(board, result.origin)

\* a position with castling flags and an en-passant square has been mirrored twice
C11_Witness ==
    /\ result.op = "mirror_board" /\ result.times = 2
    /\ ValidPosition(result.origin)
    /\ result.origin.en_passant # 64
    /\ result.origin.castling # {}


\* C12: two moves compare equal exactly when origin, destination and flag all
\* agree; moves that differ only in the promotion kind are not equal.
C12_EqualityComparesAllSixteenBits ==
    result.op = "eq"
        => (result.equal <=> (/\ get_from(result.self) = get_from(result.other)
                              /\ get_to(result.self) = get_to(result.other)
                              /\ get_flags(result.self) = get_flags(result.other)))

\* the promotion kind a flag stands for
PromotionKind(flags) ==
    IF flags < 8 THEN "none"
    ELSE CASE flags % 4 = 0 -> "N" [] flags % 4 = 1 -> "B"
           [] flags % 4 = 2 -> "R" [] OTHER -> "Q"

\* C13: for every move, parsing its long algebraic text succeeds and gives a
\* move with the same origin, destination and promotion kind.
C13_LongAlgebraicRoundTrip ==
    result.op = "long_algebraic"
        => /\ result.parsed.ok
           /\ get_from(result.parsed.value) = get_from(result.move)
           /\ get_to(result.parsed.value) = get_to(result.move)
           /\ PromotionKind(get_flags(result.parsed.value))
                  = PromotionKind(get_flags(result.move))

\* a rook-promotion capture h7g8 has been written and parsed back
C13_Witness ==
    /\ result.op = "long_algebraic"
    /\ result.move = BitBoardMove(55, 62, ROOK_PROMOTION_CAPTURE)
    /\ input = <<"h", "7", "g", "8", "r">>
    /\ result.parsed.ok

\* the file letters and rank digits of a square name, in index order
FileLetters == <<"a", "b", "c", "d", "e", "f", "g", "h">>
FileCapitals == <<"A", "B", "C", "D", "E", "F", "G", "H">>
RankDigits == <<"1", "2", "3", "4", "5", "6", "7", "8">>
IsSquareName(text) ==
    /\ Len(text) = 2
    /\ \E f \in 1 .. 8 : text[1] \in {FileLetters[f], FileCapitals[f]}
    /\ \E r \in 1 .. 8 : text[2] = RankDigits[r]
NamedSquare(text) ==
    CHOOSE sq \in 0 .. 63 :
        /\ text[1] \in {FileLetters[FileOf(sq) + 1], FileCapitals[FileOf(sq) + 1]}
        /\ text[2] = RankDigits[RankOf(sq) + 1]

\* C14: algebraic_to_index gives rank*8 + file for a two-character name with
\* file a..h or A..H and rank 1..8, an error for every other text, and maps
\* index_to_algebraic(i) back to i for every i in 0..63.
C14_SquareCodec ==
    /\ result.op = "algebraic_to_index"
           => IF IsSquareName(result.text)
              THEN result.value = OkValue(NamedSquare(result.text))
              ELSE ~result.value.ok
    /\ result.op = "index_to_algebraic"
           => /\ result.value = OkValue(result.index)
              /\ input = <<FileLetters[FileOf(result.index) + 1],
                           RankDigits[RankOf(result.index) + 1]>>

\* the upper-case name H8 has been parsed to 63
C14_Witness ==
    /\ result.op = "algebraic_to_index"
    /\ result.text = <<"H", "8">>
    /\ result.value = OkValue(63)


\* C15: from_fen returns no position that violates one of the five invariants
\* of the data model: a FEN text describing such a position gets a parse error.
C15_FromFenRejectsInvalidPositions ==
    (result.op = "from_fen" /\ result.outcome.completed /\ result.outcome.value.ok)
        => ValidPosition(result.outcome.value.state)

RankDigits9 == <<"1", "2", "3", "4", "5", "6", "7", "8", "9">>
RankDigits9AndZero == <<"0", "1", "2", "3", "4", "5", "6", "7", "8", "9">>
\* what makes a FEN text malformed: the number of ranks, the widest rank, a
\* character that is no piece, digit or slash, a counter that is no number of
\* its range
RankSeparators(cs) == Cardinality({i \in 1 .. Len(cs) : cs[i] = "/"})
RECURSIVE WidestRank(_, _, _, _)
WidestRank(cs, i, width, widest) ==
    IF i > Len(cs) THEN Max({width, widest})
    ELSE IF cs[i] = "/" THEN WidestRank(cs, i + 1, 0, Max({width, widest}))
    ELSE IF \E d \in 1 .. 9 : cs[i] = RankDigits9[d]
    THEN WidestRank(cs, i + 1, width + (CHOOSE d \in 1 .. 9 : cs[i] = RankDigits9[d]), widest)
    ELSE WidestRank(cs, i + 1, width + 1, widest)
UnknownCharacter(cs) ==
    \E i \in 1 .. Len(cs) : cs[i] \notin {"/", "0", "1", "2", "3", "4", "5", "6", "7", "8", "9",
                                          "K", "Q", "R", "B", "N", "P",
                                          "k", "q", "r", "b", "n", "p"}
RECURSIVE Decimal(_, _)
Decimal(cs, n) ==
    IF n = 0 THEN 0
    ELSE Decimal(cs, n - 1) * 10 + (CHOOSE d \in 0 .. 9 : cs[n] = RankDigits9AndZero[d + 1])
IsCounter(cs, max) ==
    LET digits == IF Len(cs) > 1 /\ cs[1] = "+" THEN Tail(cs) ELSE cs
    IN  /\ Len(digits) \in 1 .. 6
        /\ \A i \in 1 .. Len(digits) : \E d \in 1 .. 10 : digits[i] = RankDigits9AndZero[d]
        /\ Decimal(digits, Len(digits)) <= max
Malformed(fen) ==
    \/ Len(fen) = 0
    \/ RankSeparators(fen[1]) > 7
    \/ WidestRank(fen[1], 1, 0, 0) > 8
    \/ UnknownCharacter(fen[1])
    \/ Len(fen) >= 5 /\ ~IsCounter(fen[5], 255)
    \/ Len(fen) >= 6 /\ ~IsCounter(fen[6], 65535)

\* C16: from_fen never aborts, and a text with more than eight ranks, a rank
\* of more than eight squares, an unknown character, a counter that is no
\* number of its range, or no content at all gets a returned error.
C16_FromFenIsTotal ==
    result.op = "from_fen"
        => /\ result.outcome.completed
           /\ Malformed(input) => ~result.outcome.value.ok


\* material and mobility as the evaluation is specified
MaterialOf(s, color) ==
    100 * Cardinality(get_set(s.bitboard, color, Pawn))
    + 300 * Cardinality(get_set(s.bitboard, color, Knight))
    + 300 * Cardinality(get_set(s.bitboard, color, Bishop))
    + 500 * Cardinality(get_set(s.bitboard, color, Rook))
    + 900 * Cardinality(get_set(s.bitboard, color, Queen))
    + 0 * Cardinality(get_set(s.bitboard, color, King))
MovesOf(s, color) == Len(generate_moves([s EXCEPT !.active_color = color]))

\* C17: evaluate_bitboard(p, c) returns (material of c - material of the other
\* colour) + 10 * (generated moves of c - generated moves of the other colour),
\* a pawn counting 100, also when the other colour has more moves.
C17_EvaluationIsMaterialPlusMobility ==
    result.op = "evaluate_bitboard"
        => result.outcome
               = Returned(MaterialOf(board, result.color)
                          - MaterialOf(board, Opposite(result.color))
                          + 10 * (MovesOf(board, result.color)
                                  - MovesOf(board, Opposite(result.color))))


\* C18: a search at depth > 0 of a position without a legal move returns a
\* large negative value when the side to move is in check and zero when it is
\* not, whatever alpha and beta are.
C18_MateAndStalemateValues ==
    (result.op = "alpha_beta" /\ LegalMoves(board) = {})
        => /\ result.outcome.completed
           /\ IF InCheck(Mailbox(board.bitboard), board.active_color)
              THEN result.outcome.value <= -10000
              ELSE result.outcome.value = 0


\* C19: best_move scores every generated move of the root and returns the
\* first move, in generation order, whose score is the maximum.
C19_BestMoveIsTheFirstMaximum ==
    result.op = "best_move"
        => LET moves == generate_moves(board)
               scores == MoveValues(SearchDriver_new(result.size), board, moves, result.depth)
           IN  /\ \A i \in 1 .. Len(moves) : scores[i].completed
               /\ result.outcome.completed
               /\ \E i \in 1 .. Len(moves) :
                      /\ result.outcome.value = moves[i]
                      /\ \A j \in 1 .. Len(moves) : scores[j].value <= scores[i].value
                      /\ \A j \in 1 .. i - 1 : scores[j].value < scores[i].value


\* C20: no worker reads or writes state another worker can write, each works
\* on its own clone only, and the parallel run returns the move the scoring of
\* the root moves one after another returns.
C20_WorkersShareNoMutableState ==
    /\ workers.status # "idle"
           => \A i \in Tasks : \A j \in Tasks \ {i} :
                  (workers.tasks[i].reads \cup workers.tasks[i].writes)
                      \cap WorkerCanWrite(j) = {}
    /\ result.op = "par_best_move"
           => /\ result.outcome.completed
              /\ result.outcome \in best_move(SearchDriver_new(result.size), board, result.depth)


\* the squares of the rooks of one colour
RookSquares(s, color) == s.bitboard[color * 6 + Rook]
\* the move just played was made by a king of the side to move of a valid position
KingJustMoved ==
    /\ ply > 0
    /\ ValidPosition(before)
    /\ IsPiece(Mailbox(before.bitboard), get_from(last_move), before.active_color, King)

\* C21: a generated king move of two files toward the h-file carries the flag
\* 0010 and moves the h-file rook to the square the king passed over; one of
\* two files toward the a-file carries the flag 0011 and moves the a-file
\* rook to the square passed over; a generated king move of a single square
\* moves no rook and puts no piece on a square that had none of its kind.
C21_CastlingEncodedAndExecuted ==
    KingJustMoved =>
        LET from == get_from(last_move)
            to == get_to(last_move)
            color == before.active_color
        IN  CASE to = from + 2 ->
                   /\ get_flags(last_move) = KING_CASTLE
                   /\ RookSquares(board, color)
                        = (RookSquares(before, color) \ {from + 3}) \cup {from + 1}
              [] to = from - 2 ->
                   /\ get_flags(last_move) = QUEEN_CASTLE
                   /\ RookSquares(board, color)
                        = (RookSquares(before, color) \ {from - 4}) \cup {from - 1}
              [] OTHER ->
                   /\ RookSquares(board, color) = RookSquares(before, color)
                   /\ \A i \in 0 .. 11 :
                          board.bitboard[i] \ {to} \subseteq before.bitboard[i]

\* the move just played took a pawn of the side to move of a valid position
\* diagonally onto the empty en-passant target
EnPassantJustPlayed ==
    /\ ply > 0
    /\ ValidPosition(before)
    /\ IsPiece(Mailbox(before.bitboard), get_from(last_move), before.active_color, Pawn)
    /\ get_to(last_move) = before.en_passant
    /\ FileOf(get_to(last_move)) # FileOf(get_from(last_move))
    /\ Mailbox(before.bitboard)[get_to(last_move)] = 12
\* the square of the pawn an en-passant capture takes: on the file of the
\* target and the rank of the capturing pawn
CapturedPawnSquare(m) == RankOf(get_from(m)) * 8 + FileOf(get_to(m))

\* C22: a generated en-passant capture carries the flag 0101, and after it
\* has been applied the captured pawn is gone, the capturing pawn stands on
\* the en-passant target and the en-passant field is 64.
C22_EnPassantCaptureRemovesThePawn ==
    EnPassantJustPlayed =>
        /\ get_flags(last_move) = EP_CAPTURE
        /\ Mailbox(board.bitboard)[CapturedPawnSquare(last_move)] = 12
        /\ IsPiece(Mailbox(board.bitboard), get_to(last_move), before.active_color, Pawn)
        /\ board.en_passant = 64

\* the last rank of a colour's pawns
LastRank(color) == IF color = White THEN 7 ELSE 0
\* the piece a promotion flag names
PieceOfKind(flags) ==
    CASE flags % 4 = 0 -> Knight [] flags % 4 = 1 -> Bishop
      [] flags % 4 = 2 -> Rook [] OTHER -> Queen
\* the places in the generated list of the pawn moves onto the last rank
PromotionPlaces(s, moves) ==
    {i \in 1 .. Len(moves) :
        /\ IsPiece(Mailbox(s.bitboard), get_from(moves[i]), s.active_color, Pawn)
        /\ RankOf(get_to(moves[i])) = LastRank(s.active_color)}
\* the places of the moves with the origin and destination of m
SamePlaces(moves, m) ==
    {j \in 1 .. Len(moves) :
        get_from(moves[j]) = get_from(m) /\ get_to(moves[j]) = get_to(m)}
\* one promotion of the list: four entries, one per piece, the capture bit of
\* each telling whether the destination holds an enemy piece, and the position
\* after apply_move
PromotionIsRight(s, moves, m) ==
    /\ Cardinality(SamePlaces(moves, m)) = 4
    /\ {get_flags(moves[j]) - (get_flags(moves[j]) % 8) : j \in SamePlaces(moves, m)} = {8}
    /\ {PieceOfKind(get_flags(moves[j])) : j \in SamePlaces(moves, m)}
         = {Queen, Rook, Bishop, Knight}
    /\ \A j \in SamePlaces(moves, m) :
          (get_flags(moves[j]) \in 12 .. 15)
              <=> IsColor(Mailbox(s.bitboard), get_to(m), Opposite(s.active_color))
    /\ IsPiece(Mailbox(apply_move(s, m).bitboard), get_to(m), s.active_color,
               PieceOfKind(get_flags(m)))
    /\ get_piece(apply_move(s, m).bitboard, get_to(m))
         = <<s.active_color, PieceOfKind(get_flags(m))>>
    /\ NoPawnOnEndRank(apply_move(s, m))
    /\ PairwiseDisjoint(apply_move(s, m))
AllPromotionsRight(s, moves) ==
    \A i \in PromotionPlaces(s, moves) : PromotionIsRight(s, moves, moves[i])

SideFlags(castling, color) ==
    castling \cap (IF color = White THEN {WHITE_KING, WHITE_A_ROOK, WHITE_H_ROOK}
                   ELSE {BLACK_KING, BLACK_A_ROOK, BLACK_H_ROOK})
\* the home corners of a colour's rooks and the flag of each
HomeCorners(color) == IF color = White THEN {0, 7} ELSE {56, 63}
CornerFlag(sq) ==
    CASE sq = 0 -> WHITE_A_ROOK [] sq = 7 -> WHITE_H_ROOK
      [] sq = 56 -> BLACK_A_ROOK [] sq = 63 -> BLACK_H_ROOK

\* a generated move of s that takes a rook of the other side
TakesRook(s, m) ==
    /\ IsColor(Mailbox(s.bitboard), get_from(m), s.active_color)
    /\ IsPiece(Mailbox(s.bitboard), get_to(m), Opposite(s.active_color), Rook)
\* what the capture of a rook must leave: the rook gone and, of the
\* defender's flags, the flag of a rook taken on its home corner cleared
RookCaptureIsRight(s, m, after) ==
    /\ get_to(m) \notin RookSquares(after, Opposite(s.active_color))
    /\ SideFlags(after.castling, Opposite(s.active_color))
         = IF get_to(m) \in HomeCorners(Opposite(s.active_color))
           THEN SideFlags(s.castling, Opposite(s.active_color)) \ {CornerFlag(get_to(m))}
           ELSE SideFlags(s.castling, Opposite(s.active_color))
AllRookCapturesRight(s, moves) ==
    \A i \in 1 .. Len(moves) :
        TakesRook(s, moves[i]) => RookCaptureIsRight(s, moves[i], apply_move(s, moves[i]))

\* C24: after apply_move of a capture of an enemy rook on its home corner the
\* rook is gone and, of the defending side's castling flags, exactly the flag
\* of that rook has been cleared, whichever side captures and wherever the
\* capturing piece came from; the capture of a rook elsewhere clears no flag
\* of the defending side.
C24_CapturedCornerRookLosesItsFlag ==
    ValidPosition(board) => AllRookCapturesRight(board, generate_moves(board))

\* a castle of a side is available when its king flag and the flag of the
\* rook of that wing are both set
KingFlag(color) == IF color = White THEN WHITE_KING ELSE BLACK_KING
RookFlags(color) ==
    IF color = White THEN {WHITE_A_ROOK, WHITE_H_ROOK} ELSE {BLACK_A_ROOK, BLACK_H_ROOK}
CanCastle(castling, color) ==
    KingFlag(color) \in castling /\ RookFlags(color) \cap castling # {}
\* what a move of the king, or of a rook away from its home corners, must
\* leave of the castling flags (captures of a rook are left to C24)
KingOrRookMoveIsRight(s, m, after) ==
    /\ IsPiece(Mailbox(s.bitboard), get_from(m), s.active_color, King)
         => /\ ~CanCastle(after.castling, s.active_color)
            /\ SideFlags(after.castling, Opposite(s.active_color))
                 = SideFlags(s.castling, Opposite(s.active_color))
    /\ (/\ IsPiece(Mailbox(s.bitboard), get_from(m), s.active_color, Rook)
        /\ get_from(m) \notin HomeCorners(s.active_color))
         => after.castling = s.castling
AllKingAndRookMovesRight(s, moves) ==
    \A i \in 1 .. Len(moves) :
        ~TakesRook(s, moves[i])
            => KingOrRookMoveIsRight(s, moves[i], apply_move(s, moves[i]))

\* C25: after apply_move of a king move of either side, neither castle of
\* that side is available and the three flags of the other side are
\* unchanged; after a rook move that does not start on a home corner of the
\* rook's side all six flags are unchanged.
C25_KingAndRookMovesAndCastlingFlags ==
    ValidPosition(board) => AllKingAndRookMovesRight(board, generate_moves(board))

\* the move just played was a capture or a pawn move
CaptureOrPawnMove ==
    \/ Mailbox(before.bitboard)[get_to(last_move)] # 12
    \/ Mailbox(before.bitboard)[get_from(last_move)] \in {Pawn, 6 + Pawn}

\* C26: after a move has been played (apply_move, then change_side) the
\* halfmove clock is 0 if the move was a capture or a pawn move and the
\* previous clock plus 1 otherwise, without wrapping, and the fullmove number
\* has grown by 1 exactly when Black moved.
C26_HalfmoveClockAndFullmoveNumber ==
    ply > 0 =>
        /\ board.half_moves = IF CaptureOrPawnMove THEN 0 ELSE before.half_moves + 1
        /\ board.full_moves
             = before.full_moves + (IF before.active_color = Black THEN 1 ELSE 0)

\* plain minimax of depth plies over generate_moves and evaluate_bitboard:
\* no window, no table
RECURSIVE Minimax(_, _, _, _)
MinimaxChildren(s, moves, color, depth, maximize) ==
    {Minimax(change_side(apply_move(s, moves[i])), color, depth - 1, ~maximize) :
        i \in 1 .. Len(moves)}
MinimaxOver(values, maximize) ==
    IF values = {} THEN (IF maximize THEN I64_MIN ELSE I64_MAX)
    ELSE IF maximize THEN Max(values) ELSE Min(values)
Minimax(s, color, depth, maximize) ==
    IF depth = 0
    THEN (IF maximize THEN 1 ELSE -1) * evaluate_bitboard(s, color, FALSE).value
    ELSE MinimaxOver(MinimaxChildren(s, generate_moves(s), color, depth, maximize), maximize)

\* C27: a search of a position to depth d with the full window completes and
\* returns the value of plain depth-d minimax over the same generator and
\* evaluation.
C27_FullWindowSearchIsMinimax ==
    result.op = "full_window"
        => /\ result.outcome.completed
           /\ result.outcome.value
                = Minimax(board, board.active_color, result.depth, result.maximize)

\* the step of a direction in files and ranks
FileStep(d) ==
    CASE d \in {East, NorthEast, SouthEast} -> 1
      [] d \in {West, NorthWest, SouthWest} -> -1
      [] OTHER -> 0
RankStep(d) ==
    CASE d \in {North, NorthEast, NorthWest} -> 1
      [] d \in {South, SouthEast, SouthWest} -> -1
      [] OTHER -> 0
\* the squares strictly beyond s in direction d, up to the edge of the board
OpenRay(d, s) ==
    {t \in Squares :
        \E k \in 1 .. 7 : /\ FileOf(t) = FileOf(s) + k * FileStep(d)
                          /\ RankOf(t) = RankOf(s) + k * RankStep(d)}

\* C28: for each of the eight directions and each square 0..63,
\* RAY_ATTACKS[d][s] is the set of all squares strictly beyond s in direction
\* d up to the edge (a1 included, as in the south ray of a8, the west ray of
\* h1 and the south-west ray of h8), and RAY_ATTACKS[d][64] is empty.
C28_RayAttacksAreTheOpenRays ==
    (result.op = "lookup" /\ input.table = "RAY_ATTACKS")
        => result.value = IF input.index = 64 THEN {}
                          ELSE OpenRay(input.direction, input.index)

\* C29: for every square s, KING_ATTACKS[s] is the set of the squares next to
\* s on the board and KNIGHT_ATTACKS[s] the set of the squares a knight's
\* jump away from s, with no square from across the a/h edge.
C29_KingAndKnightTables ==
    /\ (result.op = "lookup" /\ input.table = "KING_ATTACKS")
         => result.value = {t \in Squares : KingStep(input.index, t)}
    /\ (result.op = "lookup" /\ input.table = "KNIGHT_ATTACKS")
         => result.value = {t \in Squares : KnightJump(input.index, t)}

\* the move of the last step was made on a board whose en-passant square, if
\* any, is empty
EmptyEnPassantSquare(b) == b.en_passant = 0 \/ b.pieces[b.en_passant] = 12

\* C30: move_piece(m) followed by revert_last_move(m) restores the Board
\* (squares, side to move, en-passant square, castling, halfmove clock,
\* fullmove number and history) for every pseudo-legal move m, captures,
\* en-passant captures and promotions included; generate_legal_moves leaves
\* the Board as it was; revert_last_move on an empty history changes nothing.
C30_MakeUnmakeRoundTrip ==
    (result.op \in {"revert_last_move", "generate_legal_moves"} /\ result.origin.half_moves < 256)
        => input = result.origin
\* the same on the boards whose en-passant square is empty
RoundTripOnEmptyEnPassantSquare ==
    (result.op \in {"revert_last_move", "generate_legal_moves"}
     /\ EmptyEnPassantSquare(result.origin))
        => input = result.origin
====
